---- MODULE Spec2Model ----
(***************************************************************************)
(* Conductor: the agent coordination state engine (SQLiteStateStore) and   *)
(* the handlers built on it (MCP tools, dashboard actions).                *)
(*                                                                         *)
(* The store is one SQLite database with foreign keys enforced.  Every SQL *)
(* statement is atomic; a store method that runs several statements is     *)
(* modelled statement by statement where callers in different processes    *)
(* (MCP server, dashboard) can interleave with it.                         *)
(***************************************************************************)
EXTENDS Integers, Sequences, FiniteSets, TLC

VARIABLES
    now,          \* wall clock in milliseconds (new Date())
    projects,     \* table projects:    id -> row, over the ids that have a row
    agents,       \* table agents:      id -> row, over the ids that have a row
    tasks,        \* table tasks:       id -> row, over the ids that have a row
    file_locks,   \* table file_locks:  set of rows
    cost_events,  \* table cost_events: set of rows
    access_requests, \* table access_requests: id -> row, over the ids that have a row
    onboarding_config, \* table onboarding_config: project id -> row
    task_counts,  \* recorded task claims: <<project id, agent id>> -> count
    claim_calls,  \* per <<project id, agent id>>: the conductor_claim_task calls that succeeded
    pc,           \* per process: the store call it is inside, or "idle"
    frame,        \* per process: the locals of that call
    lastCall,     \* the call that completed in the last step and its outcome
    race,         \* the claimTask call that ran just before, on the same pending task
    ledger,       \* per project: what createProject and recordCost were asked to book
    runningAgents, \* AgentRunner.runningAgents: agentId -> sandboxId
    instances,    \* the SandboxManager's instances: sandbox id -> row
    calls         \* per call slot of the AgentRunner: the call in progress and its locals

vars == <<now, projects, agents, tasks, file_locks, cost_events, access_requests,
          onboarding_config, task_counts, claim_calls, pc, frame, lastCall, race, ledger,
          runningAgents, instances, calls>>

\* The state of the AgentRunner, which no method of the store touches
runnerVars == <<runningAgents, instances, calls>>

\* The database and the calls on it, which the AgentRunner never touches
storeVars == <<now, projects, agents, tasks, file_locks, cost_events, access_requests,
               onboarding_config, task_counts, claim_calls, pc, frame, race, ledger>>

----------------------------------------------------------------------------
(* Identifiers and input domains *)

NULL == "null"
\* a timestamp or number column that holds NULL
NullTime == -1
NONE == "undefined"
MsPerSecond == 1000

ProjectIds == {"p1", "p2"}
AgentIds == {"a1", "a2", "a3"}
TaskOrder == <<"t1", "t2">>
TaskIds == {TaskOrder[i] : i \in 1..Len(TaskOrder)}
Paths == {"f1", "f2"}
Procs == {"mcp", "dashboard"}
AgentNames == {"n1"}

TaskStatus ==
    {"pending", "claimed", "in_progress", "completed", "failed", "blocked", "cancelled"}

\* Outcomes of a call
RTrue == "true"
RFalse == "false"
RThrows == "throws"
RVoid == "void"

NoCall ==
    [op |-> "none", project |-> NULL, target |-> NULL, agent |-> NULL, res |-> RVoid,
     at |-> NullTime, arg |-> NullTime]
NoRace ==
    [task |-> NULL, first |-> NULL, firstRes |-> RVoid, second |-> NULL, secondRes |-> RVoid]
NoFrame == [project |-> NULL, target |-> NULL, agent |-> NULL, num |-> NullTime]

Call(op, target, agent, res) ==
    [op |-> op, project |-> NULL, target |-> target, agent |-> agent, res |-> res,
     at |-> NullTime, arg |-> NullTime]

\* A completed call of a lock method, which names its project
LockCall(op, p, f, a, res, at) ==
    [op |-> op, project |-> p, target |-> f, agent |-> a, res |-> res, at |-> at,
     arg |-> NullTime]

----------------------------------------------------------------------------
(* Foreign keys and cascades of the schema *)

ProjectExists(p) == p \in DOMAIN projects
AgentExists(a) == a \in DOMAIN agents
TaskExists(t) == t \in DOMAIN tasks

\* tasks.assigned_to REFERENCES agents(id) ON DELETE SET NULL
TasksAfterAgentDelete(a) ==
    [t \in DOMAIN tasks |->
        IF tasks[t].assigned_to = a
        THEN [tasks[t] EXCEPT !.assigned_to = NULL]
        ELSE tasks[t]]

\* file_locks.agent_id REFERENCES agents(id) ON DELETE CASCADE
LocksAfterAgentDelete(a) == {l \in file_locks : l.agent_id # a}

\* cost_events.agent_id REFERENCES agents(id) ON DELETE CASCADE
CostEventsAfterAgentDelete(a) == {e \in cost_events : e.agent_id # a}

----------------------------------------------------------------------------
\* The calls of the AgentRunner that can be in progress at once, and a slot
\* with no call in it
CallSlots == {"c1", "c2"}
NoRun == [kind |-> "none", agent |-> NULL, pc |-> "idle", created |-> NULL,
          instance |-> NULL, success |-> FALSE]

(* Initial state: a freshly created database, no call in progress *)

Init ==
    /\ now = 0
    /\ projects = <<>>
    /\ agents = <<>>
    /\ tasks = <<>>
    /\ file_locks = {}
    /\ cost_events = {}
    /\ access_requests = <<>>
    /\ onboarding_config = <<>>
    /\ task_counts = <<>>
    /\ claim_calls = <<>>
    /\ pc = [q \in Procs |-> "idle"]
    /\ frame = [q \in Procs |-> NoFrame]
    /\ lastCall = NoCall
    /\ race = NoRace
    /\ ledger = <<>>
    /\ runningAgents = <<>>
    /\ instances = <<>>
    /\ calls = [c \in CallSlots |-> NoRun]

----------------------------------------------------------------------------
(* Project and agent methods *)

\* createProject: INSERT INTO projects; budget_total = budget?.total || null,
\* budget_spent = budget?.spent || 0
CreateProject(p, total, spent) ==
    /\ ~ProjectExists(p)
    /\ projects' = (p :> [budget_total |-> total, budget_spent |-> spent]) @@ projects
    /\ lastCall' = Call("createProject", NULL, NULL, RVoid)
    /\ race' = NoRace
    /\ ledger' = (p :> [initial |-> spent, inserted |-> 0, returned |-> 0, events |-> 0]) @@ ledger
    /\ UNCHANGED <<runnerVars, claim_calls, onboarding_config, task_counts,
                   access_requests, now, agents, tasks, file_locks, cost_events, pc, frame>>

\* provider of the profiles the dashboard registers: body.provider || 'custom'
DefaultProvider == "custom"

\* status of a profile registered without one: agent.status || 'idle'
DefaultStatus == "idle"

\* agent.quotaLimit || null: an absent limit and a limit of 0 are stored as NULL
QuotaLimitColumn(quotaLimit) == IF quotaLimit = 0 THEN NullTime ELSE quotaLimit

\* The VALUES of registerAgent's INSERT for a profile {name, provider, status,
\* quotaLimit, lastHeartbeat}; absent numbers and dates are NullTime
AgentRow(p, profile) ==
    [project_id |-> p, name |-> profile.name, provider |-> profile.provider,
     status |-> profile.status, quota_limit |-> QuotaLimitColumn(profile.quotaLimit),
     last_heartbeat |-> profile.lastHeartbeat]

\* A profile that carries a name and a provider and nothing else
PlainProfile(name, provider) ==
    [name |-> name, provider |-> provider, status |-> DefaultStatus,
     quotaLimit |-> NullTime, lastHeartbeat |-> NullTime]

\* Variant of AgentsAfterRegister: INSERT OR IGNORE, which keeps a row that
\* already holds the id
AgentsAfterRegisterIgnore(p, a, name, provider) ==
    IF AgentExists(a) THEN agents
    ELSE (a :> AgentRow(p, PlainProfile(name, provider))) @@ agents

\* The agents table after INSERT OR REPLACE of the row of id a: id is the
\* table's primary key, whatever the project
AgentsAfterUpsert(p, a, profile) == (a :> AgentRow(p, profile)) @@ agents

AgentsAfterRegister(p, a, name, provider) ==
    AgentsAfterUpsert(p, a, PlainProfile(name, provider))

\* registerAgent: INSERT OR REPLACE INTO agents.  REPLACE deletes the row that
\* holds the id before inserting, and the delete runs the ON DELETE actions of
\* the tables that reference agents(id).  A project_id that references no
\* project fails the statement, which then changes nothing.
RegisterAgent(p, a, name) ==
    /\ IF ProjectExists(p)
       THEN /\ agents' = AgentsAfterRegister(p, a, name, DefaultProvider)
            /\ tasks' = IF AgentExists(a) THEN TasksAfterAgentDelete(a) ELSE tasks
            /\ file_locks' = IF AgentExists(a) THEN LocksAfterAgentDelete(a) ELSE file_locks
            /\ cost_events' = IF AgentExists(a) THEN CostEventsAfterAgentDelete(a)
                              ELSE cost_events
            /\ lastCall' = Call("registerAgent", NULL, NULL, RVoid)
       ELSE /\ UNCHANGED <<agents, tasks, file_locks, cost_events>>
            /\ lastCall' = Call("registerAgent", NULL, NULL, RThrows)
    /\ race' = NoRace
    /\ UNCHANGED <<runnerVars, claim_calls, onboarding_config, task_counts,
                   access_requests, now, projects, pc, frame, ledger>>

\* registerAgent(projectId, profile) with a full profile; the call records the
\* profile it was given
RegisterAgentProfile(p, a, profile) ==
    /\ IF ProjectExists(p)
       THEN /\ agents' = AgentsAfterUpsert(p, a, profile)
            /\ tasks' = IF AgentExists(a) THEN TasksAfterAgentDelete(a) ELSE tasks
            /\ file_locks' = IF AgentExists(a) THEN LocksAfterAgentDelete(a) ELSE file_locks
            /\ cost_events' = IF AgentExists(a) THEN CostEventsAfterAgentDelete(a)
                              ELSE cost_events
            /\ lastCall' = [Call("registerAgent", NULL, a, RVoid)
                            EXCEPT !.project = p, !.arg = profile]
       ELSE /\ UNCHANGED <<agents, tasks, file_locks, cost_events>>
            /\ lastCall' = [Call("registerAgent", NULL, a, RThrows)
                            EXCEPT !.project = p, !.arg = profile]
    /\ race' = NoRace
    /\ UNCHANGED <<runnerVars, claim_calls, onboarding_config, task_counts,
                   access_requests, now, projects, pc, frame, ledger>>

\* listAgents(projectId): SELECT * FROM agents WHERE project_id = ?
ListAgents(p) == {a \in DOMAIN agents : agents[a].project_id = p}

\* heartbeat(agentId): UPDATE agents SET last_heartbeat = ? WHERE id = ?
Heartbeat(a) ==
    /\ agents' = [x \in DOMAIN agents |->
                     IF x = a THEN [agents[x] EXCEPT !.last_heartbeat = now] ELSE agents[x]]
    /\ lastCall' = Call("heartbeat", NULL, a, RVoid)
    /\ race' = NoRace
    /\ UNCHANGED <<runnerVars, claim_calls, onboarding_config, task_counts,
                   access_requests, now, projects, tasks, file_locks, cost_events, pc,
                   frame, ledger>>

\* updateAgentStatus(agentId, status): UPDATE agents SET status = ?,
\* last_heartbeat = ? WHERE id = ?
UpdateAgentStatus(a, status) ==
    /\ agents' = [x \in DOMAIN agents |->
                     IF x = a THEN [agents[x] EXCEPT !.status = status, !.last_heartbeat = now]
                     ELSE agents[x]]
    /\ lastCall' = Call("updateAgentStatus", NULL, a, RVoid)
    /\ race' = NoRace
    /\ UNCHANGED <<runnerVars, claim_calls, onboarding_config, task_counts,
                   access_requests, now, projects, tasks, file_locks, cost_events, pc,
                   frame, ledger>>

----------------------------------------------------------------------------
(* Task methods *)

\* crypto.randomUUID(): an id no row holds yet (ids are handed out in order)
FreshTaskId(t) ==
    /\ Cardinality(DOMAIN tasks) < Len(TaskOrder)
    /\ t = TaskOrder[Cardinality(DOMAIN tasks) + 1]

\* priority of a task created without one: task.priority || 'medium'
DefaultPriority == "medium"

\* created_at TEXT DEFAULT (datetime('now')): the clock in whole seconds
DatetimeNow == now \div MsPerSecond

\* createTask: INSERT INTO tasks with status = task.status || 'pending',
\* priority = task.priority || 'medium' and assigned_to = task.assignedTo || null;
\* the id is a fresh UUID, created_at the column's default.
CreateTaskOf(t, p, status, priority, assignedTo) ==
    /\ FreshTaskId(t)
    /\ IF ProjectExists(p) /\ (assignedTo = NULL \/ AgentExists(assignedTo))
       THEN /\ tasks' = (t :> [project_id |-> p, status |-> status, priority |-> priority,
                                assigned_to |-> assignedTo, claimed_at |-> NullTime,
                                started_at |-> NullTime, completed_at |-> NullTime,
                                created_at |-> DatetimeNow]) @@ tasks
            /\ lastCall' = Call("createTask", NULL, NULL, RVoid)
       ELSE /\ UNCHANGED tasks
            /\ lastCall' = Call("createTask", NULL, NULL, RThrows)
    /\ race' = NoRace
    /\ UNCHANGED <<runnerVars, claim_calls, onboarding_config, task_counts,
                   access_requests, now, projects, agents, file_locks, cost_events, pc,
                   frame, ledger>>

\* createTask as its callers use it, without a priority
CreateTask(t, p, status, assignedTo) == CreateTaskOf(t, p, status, DefaultPriority, assignedTo)

\* The WHERE clause of claimTask's UPDATE
ClaimMatches(t, a) ==
    /\ TaskExists(t)
    /\ tasks[t].assigned_to = NULL \/ tasks[t].assigned_to = a
    /\ tasks[t].status = "pending"

\* The outcome of claimTask: result.changes > 0, or the constraint error of
\* the UPDATE when the row matches and agentId references no agent.
ClaimResult(t, a) ==
    IF ~ClaimMatches(t, a) THEN RFalse
    ELSE IF AgentExists(a) THEN RTrue
    ELSE RThrows

\* The tasks table after claimTask's UPDATE
ClaimedTasks(t, a) ==
    IF ClaimResult(t, a) = RTrue
    THEN [tasks EXCEPT ![t] = [@ EXCEPT !.assigned_to = a, !.claimed_at = now,
                                        !.status = "claimed"]]
    ELSE tasks

\* Two claimTask calls race when they run back to back on a task that was
\* pending before the first of them: race keeps the first call until the
\* second, by another agent, completes it.
RaceAfterClaim(t, a) ==
    IF race # NoRace /\ race.second = NULL /\ race.task = t /\ race.first # a
    THEN [race EXCEPT !.second = a, !.secondRes = ClaimResult(t, a)]
    ELSE IF TaskExists(t) /\ tasks[t].status = "pending"
    THEN [task |-> t, first |-> a, firstRes |-> ClaimResult(t, a),
          second |-> NULL, secondRes |-> RVoid]
    ELSE NoRace

\* claimTask(taskId, agentId): one conditional UPDATE
ClaimTask(t, a) ==
    /\ tasks' = ClaimedTasks(t, a)
    /\ lastCall' = Call("claimTask", t, a, ClaimResult(t, a))
    /\ race' = RaceAfterClaim(t, a)
    /\ UNCHANGED <<runnerVars, claim_calls, onboarding_config, task_counts,
                   access_requests, now, projects, agents, file_locks, cost_events, pc,
                   frame, ledger>>

\* The SET clauses updateTask builds from `updates` (status, assignedTo) and
\* from the row it read first: started_at on the first in_progress,
\* completed_at on completed or failed.
UpdatedRow(row, status, assignedTo) ==
    [row EXCEPT
        !.status = IF status # NONE THEN status ELSE @,
        !.started_at = IF status = "in_progress" /\ row.started_at = NullTime THEN now ELSE @,
        !.completed_at = IF status \in {"completed", "failed"} THEN now ELSE @,
        !.assigned_to = IF assignedTo # NONE THEN assignedTo ELSE @]

\* updateTask(taskId, updates): 'Task not found' when the id has no row; the
\* UPDATE fails on assigned_to's foreign key when assignedTo names no agent.
UpdateResult(t, status, assignedTo) ==
    IF ~TaskExists(t) THEN RThrows
    ELSE IF assignedTo # NONE /\ ~AgentExists(assignedTo) THEN RThrows
    ELSE RVoid

UpdateTask(t, status, assignedTo) ==
    /\ tasks' = IF UpdateResult(t, status, assignedTo) = RVoid
                THEN [tasks EXCEPT ![t] = UpdatedRow(tasks[t], status, assignedTo)]
                ELSE tasks
    /\ lastCall' = Call("updateTask", NULL, NULL, UpdateResult(t, status, assignedTo))
    /\ race' = NoRace
    /\ UNCHANGED <<runnerVars, claim_calls, onboarding_config, task_counts,
                   access_requests, now, projects, agents, file_locks, cost_events, pc,
                   frame, ledger>>

\* MCP tool conductor_update_task: status is one of the tool's enum, or absent
ConductorUpdateStatus == {"in_progress", "completed", "failed", "blocked", NONE}

ConductorUpdateTask(t, status) ==
    /\ status \in ConductorUpdateStatus
    /\ UpdateTask(t, status, NONE)

\* Dashboard actions built on updateTask
UnblockTask(t) == UpdateTask(t, "pending", NONE)

CancelTask(t) == UpdateTask(t, "cancelled", NONE)

ReassignTask(t, newAgentId) == UpdateTask(t, "pending", newAgentId)

----------------------------------------------------------------------------
(* Lock methods.  A row of file_locks is (file_path, project_id, agent_id,  *)
(* expires_at); locked_at is written and never read, and is left out.        *)

MaxTime == 2
MaxTtl == 1

\* The row of file_locks's primary key (file_path, project_id), if any
LockRows(p, f) == {l \in file_locks : l.project_id = p /\ l.file_path = f}

\* expires_at < ? : the lock's lease has passed at time t
Expired(l, t) == l.expires_at < t

\* Variant of Purged: a sweep that is not scoped to the project
PurgedEverywhere(p, t) == {l \in file_locks : ~Expired(l, t)}

\* DELETE FROM file_locks WHERE project_id = ? AND expires_at < ?
Purged(p, t) == {l \in file_locks : ~(l.project_id = p /\ Expired(l, t))}

\* Variant of InsertFails: the caller's own row does not block the INSERT
InsertFailsUnlessHolder(p, f, a) ==
    \/ \E l \in LockRows(p, f) : l.agent_id # a
    \/ ~ProjectExists(p)
    \/ ~AgentExists(a)

\* INSERT INTO file_locks: fails on the primary key, and on the foreign keys
\* project_id -> projects(id) and agent_id -> agents(id)
InsertFails(p, f, a) ==
    \/ LockRows(p, f) # {}
    \/ ~ProjectExists(p)
    \/ ~AgentExists(a)

\* Variant of LocksAfterInsert: a table without the primary key
LocksAfterInsertNoKey(p, f, a, expiresAt) ==
    IF ~ProjectExists(p) \/ ~AgentExists(a) THEN file_locks
    ELSE file_locks \cup {[file_path |-> f, project_id |-> p, agent_id |-> a,
                           expires_at |-> expiresAt]}

LocksAfterInsert(p, f, a, expiresAt) ==
    IF InsertFails(p, f, a) THEN file_locks
    ELSE file_locks \cup {[file_path |-> f, project_id |-> p, agent_id |-> a,
                           expires_at |-> expiresAt]}

\* acquireLock, first statement: now and expiresAt are taken, the project's
\* expired locks are deleted
AcquireLockPurge(q, p, f, a, ttl) ==
    /\ pc[q] = "idle"
    /\ file_locks' = Purged(p, now)
    /\ pc' = [pc EXCEPT ![q] = "acquireLock"]
    /\ frame' = [frame EXCEPT ![q] = [project |-> p, target |-> f, agent |-> a,
                                      num |-> now + ttl * MsPerSecond]]
    /\ lastCall' = NoCall
    /\ race' = NoRace
    /\ UNCHANGED <<runnerVars, claim_calls, onboarding_config, task_counts,
                   access_requests, now, projects, agents, tasks, cost_events, ledger>>

\* acquireLock, second statement: the INSERT inside try/catch; any error of
\* the INSERT is caught and reported as false
AcquireLockInsert(q) ==
    /\ pc[q] = "acquireLock"
    /\ LET p == frame[q].project
           f == frame[q].target
           a == frame[q].agent
       IN /\ file_locks' = LocksAfterInsert(p, f, a, frame[q].num)
          /\ lastCall' = LockCall("acquireLock", p, f, a,
                                  IF InsertFails(p, f, a) THEN RFalse ELSE RTrue,
                                  frame[q].num)
    /\ pc' = [pc EXCEPT ![q] = "idle"]
    /\ frame' = [frame EXCEPT ![q] = NoFrame]
    /\ race' = NoRace
    /\ UNCHANGED <<runnerVars, claim_calls, onboarding_config, task_counts,
                   access_requests, now, projects, agents, tasks, cost_events, ledger>>

\* Variant of Released: a DELETE without the agent_id condition
ReleasedByAnyone(p, f, a) ==
    {l \in file_locks : ~(l.project_id = p /\ l.file_path = f)}

\* DELETE FROM file_locks WHERE project_id = ? AND file_path = ? AND agent_id = ?
Released(p, f, a) ==
    {l \in file_locks : ~(l.project_id = p /\ l.file_path = f /\ l.agent_id = a)}

\* releaseLock(projectId, filePath, agentId)
ReleaseLock(p, f, a) ==
    /\ file_locks' = Released(p, f, a)
    /\ lastCall' = LockCall("releaseLock", p, f, a, RVoid, NullTime)
    /\ race' = NoRace
    /\ UNCHANGED <<runnerVars, claim_calls, onboarding_config, task_counts,
                   access_requests, now, projects, agents, tasks, cost_events, pc, frame,
                   ledger>>

\* Dashboard action force_release_lock: the same DELETE, with the agentId of the request
ForceReleaseLock(p, f, a) ==
    /\ file_locks' = Released(p, f, a)
    /\ lastCall' = LockCall("releaseLock", p, f, a, RVoid, NullTime)
    /\ race' = NoRace
    /\ UNCHANGED <<runnerVars, claim_calls, onboarding_config, task_counts,
                   access_requests, now, projects, agents, tasks, cost_events, pc, frame,
                   ledger>>

\* checkLock, first statement: the project's expired locks are deleted
CheckLockPurge(q, p, f) ==
    /\ pc[q] = "idle"
    /\ file_locks' = Purged(p, now)
    /\ pc' = [pc EXCEPT ![q] = "checkLock"]
    /\ frame' = [frame EXCEPT ![q] = [project |-> p, target |-> f, agent |-> NULL,
                                      num |-> NullTime]]
    /\ lastCall' = NoCall
    /\ race' = NoRace
    /\ UNCHANGED <<runnerVars, claim_calls, onboarding_config, task_counts,
                   access_requests, now, projects, agents, tasks, cost_events, ledger>>

\* checkLock, second statement: the SELECT and the report {locked, holder, expiresAt}
CheckLockSelect(q) ==
    /\ pc[q] = "checkLock"
    /\ LET rows == LockRows(frame[q].project, frame[q].target)
       IN IF rows = {}
          THEN lastCall' = LockCall("checkLock", frame[q].project, frame[q].target,
                                    NULL, RFalse, NullTime)
          ELSE \E l \in rows :
                  lastCall' = LockCall("checkLock", frame[q].project, frame[q].target,
                                       l.agent_id, RTrue, l.expires_at)
    /\ pc' = [pc EXCEPT ![q] = "idle"]
    /\ frame' = [frame EXCEPT ![q] = NoFrame]
    /\ race' = NoRace
    /\ UNCHANGED <<runnerVars, claim_calls, onboarding_config, task_counts,
                   access_requests, now, projects, agents, tasks, file_locks, cost_events,
                   ledger>>

\* Time passes
Tick ==
    /\ now < MaxTime * MsPerSecond
    /\ now' = now + MsPerSecond
    /\ lastCall' = NoCall
    /\ race' = NoRace
    /\ UNCHANGED <<runnerVars, claim_calls, onboarding_config, task_counts,
                   access_requests, projects, agents, tasks, file_locks, cost_events, pc,
                   frame, ledger>>

LockProjects == {"p1"}
LockAgents == {"a1", "a2"}

\* The lock manager with its callers in two processes, and the clock
NextLocks ==
    \/ \E p \in LockProjects : CreateProject(p, NullTime, 0)
    \/ \E p \in LockProjects, a \in LockAgents, n \in AgentNames : RegisterAgent(p, a, n)
    \/ \E q \in Procs, p \in LockProjects, f \in Paths, a \in LockAgents, ttl \in 0..MaxTtl :
          AcquireLockPurge(q, p, f, a, ttl)
    \/ \E q \in Procs : AcquireLockInsert(q)
    \/ \E p \in LockProjects, f \in Paths, a \in LockAgents : ReleaseLock(p, f, a)
    \/ \E p \in LockProjects, f \in Paths, a \in LockAgents : ForceReleaseLock(p, f, a)
    \/ \E q \in Procs, p \in LockProjects, f \in Paths : CheckLockPurge(q, p, f)
    \/ \E q \in Procs : CheckLockSelect(q)
    \/ Tick

SpecLocks == Init /\ [][NextLocks]_vars

----------------------------------------------------------------------------
(* Properties of the lock manager, checked under SpecLocks.  A call of      *)
(* acquireLock takes effect at its INSERT; lastCall' is the call a step      *)
(* completes, the unprimed variables are the state the call found.           *)

\* The rows of (p, f) whose lease has not passed at time t
LiveRows(p, f, t) == {l \in LockRows(p, f) : ~Expired(l, t)}

AtMostOneLiveLock ==
    \A p \in LockProjects, f \in Paths : Cardinality(LiveRows(p, f, now)) <= 1

AcquireOnLiveLockFails ==
    \A p \in LockProjects :
        (lastCall'.op = "acquireLock" /\ LiveRows(p, lastCall'.target, now) # {})
        => /\ lastCall'.res = RFalse
           /\ {l \in file_locks' : l.project_id = p /\ l.file_path = lastCall'.target}
              = LockRows(p, lastCall'.target)

\* C2: in every reachable state at most one non-expired lock row exists per
\* (projectId, filePath), and an acquireLock on a (project, path) that has a
\* non-expired lock returns false and leaves that lock's holder and expiresAt
\* unchanged.
C2_MutualExclusion == []AtMostOneLiveLock /\ [][AcquireOnLiveLockFails]_vars

\* An acquireLock by a registered agent has just returned false against the
\* live lock of another agent, whose lease differs from the one asked for
C2_Witness ==
    /\ lastCall.op = "acquireLock"
    /\ lastCall.res = RFalse
    /\ AgentExists(lastCall.agent)
    /\ \E l \in file_locks :
          /\ l.file_path = lastCall.target
          /\ l.agent_id # lastCall.agent
          /\ ~Expired(l, now)
          /\ l.expires_at # lastCall.at

\* C8 as stated: acquireLock, releaseLock and checkLock never raise;
\* acquireLock returns false exactly when a lock that has not expired is
\* present for (project, path) at the time of the call, and returns true,
\* creating the lock for the caller, otherwise.
C8_FalseExactlyOnContention ==
    [][ /\ lastCall'.op \in {"acquireLock", "releaseLock", "checkLock"}
           => lastCall'.res # RThrows
        /\ lastCall'.op = "acquireLock"
           => /\ lastCall'.res = RFalse
                 <=> \E p \in LockProjects : LiveRows(p, lastCall'.target, now) # {}
              /\ lastCall'.res = RTrue
                 <=> \E l \in file_locks' \ file_locks :
                        /\ l.file_path = lastCall'.target
                        /\ l.agent_id = lastCall'.agent ]_vars

C10_ReleaseOnlyByHolder ==
    [][ lastCall'.op = "releaseLock"
        => \A l \in file_locks :
              IF l.file_path = lastCall'.target /\ l.agent_id = lastCall'.agent
              THEN l \notin file_locks'
              ELSE l \in file_locks' ]_vars

\* A releaseLock by an agent that is not the holder has just returned, and the
\* holder's live lock on that path is still there
C10_Witness ==
    /\ lastCall.op = "releaseLock"
    /\ now > 0
    /\ \E l \in file_locks :
          /\ l.file_path = lastCall.target
          /\ l.agent_id # lastCall.agent
          /\ ~Expired(l, now)

----------------------------------------------------------------------------
(* The lock methods as whole calls, as one store instance runs them: the     *)
(* store is synchronous, so within one process a method's statements run      *)
(* with nothing in between.                                                    *)

\* acquireLock(projectId, filePath, agentId, ttlSeconds): the sweep, then the
\* INSERT inside try/catch
AcquireLock(p, f, a, ttl) ==
    LET expiresAt == now + ttl * MsPerSecond
        kept == Purged(p, now)
        fails == \/ \E l \in kept : l.project_id = p /\ l.file_path = f
                 \/ ~ProjectExists(p)
                 \/ ~AgentExists(a)
    IN /\ file_locks' = IF fails THEN kept
                        ELSE kept \cup {[file_path |-> f, project_id |-> p,
                                         agent_id |-> a, expires_at |-> expiresAt]}
       /\ lastCall' = LockCall("acquireLock", p, f, a,
                               IF fails THEN RFalse ELSE RTrue, expiresAt)
       /\ race' = NoRace
       /\ UNCHANGED <<runnerVars, claim_calls, onboarding_config, task_counts,
                      access_requests, now, projects, agents, tasks, cost_events, pc,
                      frame, ledger>>

\* checkLock(projectId, filePath): the sweep, then the SELECT and the report
CheckLock(p, f) ==
    LET kept == Purged(p, now)
        rows == {l \in kept : l.project_id = p /\ l.file_path = f}
    IN /\ file_locks' = kept
       /\ IF rows = {}
          THEN lastCall' = LockCall("checkLock", p, f, NULL, RFalse, NullTime)
          ELSE \E l \in rows :
                  lastCall' = LockCall("checkLock", p, f, l.agent_id, RTrue, l.expires_at)
       /\ race' = NoRace
       /\ UNCHANGED <<runnerVars, claim_calls, onboarding_config, task_counts,
                      access_requests, now, projects, agents, tasks, cost_events, pc,
                      frame, ledger>>

LeaseProjects == {"p1", "p2"}
LeaseAgents == {"a1", "a2"}
LeasePaths == {"f1"}

\* One store instance serving two projects, and the clock
NextLease ==
    \/ \E p \in LeaseProjects : CreateProject(p, NullTime, 0)
    \/ \E p \in LeaseProjects, a \in LeaseAgents, n \in AgentNames : RegisterAgent(p, a, n)
    \/ \E p \in LeaseProjects, f \in LeasePaths, a \in LeaseAgents, ttl \in 0..MaxTtl :
          AcquireLock(p, f, a, ttl)
    \/ \E p \in LeaseProjects, f \in LeasePaths : CheckLock(p, f)
    \/ \E p \in LeaseProjects, f \in LeasePaths, a \in LeaseAgents : ReleaseLock(p, f, a)
    \/ Tick

SpecLease == Init /\ [][NextLease]_vars

SweepAgents == {"a1"}

\* One store instance serving two projects with two paths each, and the clock
NextSweep ==
    \/ \E p \in LeaseProjects : CreateProject(p, NullTime, 0)
    \/ \E p \in LeaseProjects, a \in SweepAgents, n \in AgentNames : RegisterAgent(p, a, n)
    \/ \E p \in LeaseProjects, f \in Paths, a \in SweepAgents, ttl \in 0..MaxTtl :
          AcquireLock(p, f, a, ttl)
    \/ \E p \in LeaseProjects, f \in Paths : CheckLock(p, f)
    \/ \E p \in LeaseProjects, f \in Paths, a \in SweepAgents : ReleaseLock(p, f, a)
    \/ Tick

SpecSweep == Init /\ [][NextSweep]_vars

----------------------------------------------------------------------------
(* Properties of leases, checked under SpecLease and SpecSweep.               *)

\* C11 as stated: from a successful acquireLock until the lock is released or
\* its TTL has elapsed, checkLock(project, path) reports locked = true with
\* holder = agent and the lock's expiresAt; once the TTL has elapsed or the
\* lock was released, and for a path never locked, checkLock reports
\* locked = false with no holder.  Stated in two parts: a lock row leaves the
\* table only by its holder's release or after its expiry, and checkLock reports
\* the row of (project, path) if it has one that has not expired.
C11_CheckLockFollowsLease ==
    [][ /\ \A l \in file_locks \ file_locks' :
              \/ Expired(l, now)
              \/ /\ lastCall'.op = "releaseLock"
                 /\ lastCall'.project = l.project_id
                 /\ lastCall'.target = l.file_path
                 /\ lastCall'.agent = l.agent_id
        /\ lastCall'.op = "checkLock"
           => LET live == LiveRows(lastCall'.project, lastCall'.target, now)
              IN IF live # {}
                 THEN /\ lastCall'.res = RTrue
                      /\ \E l \in live : /\ lastCall'.agent = l.agent_id
                                         /\ lastCall'.at = l.expires_at
                 ELSE /\ lastCall'.res = RFalse
                      /\ lastCall'.agent = NULL ]_vars

\* C12 as stated: a lease ends by time alone: after a lock's TTL has elapsed,
\* without any release by the holder, the next acquireLock on the same
\* (project, path) by a different agent returns true and that agent becomes
\* the holder.
C12_LeaseEndsByTime ==
    [][ (/\ lastCall'.op = "acquireLock"
         /\ \E l \in LockRows(lastCall'.project, lastCall'.target) :
               Expired(l, now) /\ l.agent_id # lastCall'.agent)
        => /\ lastCall'.res = RTrue
           /\ \E l \in file_locks' :
                 /\ l.project_id = lastCall'.project
                 /\ l.file_path = lastCall'.target
                 /\ l.agent_id = lastCall'.agent ]_vars

\* C13: the lazy sweep run by acquireLock and checkLock for project P deletes
\* exactly the locks of P whose expiresAt has passed: locks of P that have not
\* expired and every lock of any other project, expired or not, are left
\* unchanged.
C13_SweepScopedToProject ==
    [][ lastCall'.op \in {"acquireLock", "checkLock"}
        => \A l \in file_locks :
              IF l.project_id = lastCall'.project /\ l.expires_at < now
              THEN l \notin file_locks'
              ELSE l \in file_locks' ]_vars

\* A checkLock has just swept its project: a lock of the project that has not
\* expired and an expired lock of the other project are both still there
C13_Witness ==
    /\ lastCall.op = "checkLock"
    /\ \E l \in file_locks : l.project_id = lastCall.project /\ ~Expired(l, now)
    /\ \E l \in file_locks : l.project_id # lastCall.project /\ Expired(l, now)

----------------------------------------------------------------------------
(* Cost methods.  A row of cost_events is (id, project_id, agent_id, cost); *)
(* the token counts, the model and the optional task_id are left out.        *)

MaxCost == 2
MaxEvents == 2

RECURSIVE SumCost(_)
\* SUM(cost) over a set of cost_events rows
SumCost(rows) ==
    IF rows = {} THEN 0
    ELSE LET e == CHOOSE x \in rows : TRUE
         IN e.cost + SumCost(rows \ {e})

\* getProjectSpend: SELECT COALESCE(SUM(cost), 0) FROM cost_events WHERE project_id = ?
GetProjectSpend(p) == SumCost({e \in cost_events : e.project_id = p})

\* getAgentSpend: SELECT COALESCE(SUM(cost), 0) FROM cost_events WHERE agent_id = ?
GetAgentSpend(a) == SumCost({e \in cost_events : e.agent_id = a})

\* A completed call of recordCost: its project, agent and cost, and its outcome
CostCall(p, a, res, cost) ==
    [op |-> "recordCost", project |-> p, target |-> NULL, agent |-> a, res |-> res,
     at |-> cost, arg |-> NullTime]

\* Variant of CostInsertFails: a ledger that turns events away once the
\* project's spend has reached its budget
CostInsertFailsOverBudget(p, a) ==
    \/ ~ProjectExists(p)
    \/ ~AgentExists(a)
    \/ /\ ProjectExists(p)
       /\ projects[p].budget_total # NullTime
       /\ projects[p].budget_spent >= projects[p].budget_total

\* INSERT INTO cost_events: fails on the foreign keys project_id -> projects(id)
\* and agent_id -> agents(id)
CostInsertFails(p, a) == ~ProjectExists(p) \/ ~AgentExists(a)

\* UPDATE projects SET budget_spent = budget_spent + ? WHERE id = ?
BudgetAfterUpdate(p, cost) ==
    [projects EXCEPT ![p].budget_spent = @ + cost]

\* recordCost, first statement: the INSERT of the event (its id a fresh UUID);
\* an error of the INSERT ends the call
RecordCostInsert(q, p, a, cost) ==
    /\ pc[q] = "idle"
    /\ IF CostInsertFails(p, a)
       THEN /\ lastCall' = CostCall(p, a, RThrows, cost)
            /\ UNCHANGED <<cost_events, pc, frame, ledger>>
       ELSE /\ ledger[p].events < MaxEvents
            /\ cost_events' = cost_events \cup
                    {[id |-> <<p, ledger[p].events + 1>>, project_id |-> p,
                      agent_id |-> a, cost |-> cost]}
            /\ ledger' = [ledger EXCEPT ![p].inserted = @ + cost, ![p].events = @ + 1]
            /\ pc' = [pc EXCEPT ![q] = "recordCost"]
            /\ frame' = [frame EXCEPT ![q] = [project |-> p, target |-> NULL,
                                              agent |-> a, num |-> cost]]
            /\ lastCall' = NoCall
    /\ race' = NoRace
    /\ UNCHANGED <<runnerVars, claim_calls, onboarding_config, task_counts,
                   access_requests, now, projects, agents, tasks, file_locks>>

\* recordCost, second statement: the UPDATE of the project's budget_spent
RecordCostUpdate(q) ==
    /\ pc[q] = "recordCost"
    /\ projects' = BudgetAfterUpdate(frame[q].project, frame[q].num)
    /\ ledger' = [ledger EXCEPT ![frame[q].project].returned = @ + frame[q].num]
    /\ lastCall' = CostCall(frame[q].project, frame[q].agent, RVoid, frame[q].num)
    /\ pc' = [pc EXCEPT ![q] = "idle"]
    /\ frame' = [frame EXCEPT ![q] = NoFrame]
    /\ race' = NoRace
    /\ UNCHANGED <<runnerVars, claim_calls, onboarding_config, task_counts,
                   access_requests, now, agents, tasks, file_locks, cost_events>>

\* The process dies, or its statement fails, inside a call: the statements
\* that ran are committed (each statement is its own transaction), the rest
\* never run
Crash(q) ==
    /\ pc[q] # "idle"
    /\ pc' = [pc EXCEPT ![q] = "idle"]
    /\ frame' = [frame EXCEPT ![q] = NoFrame]
    /\ lastCall' = NoCall
    /\ race' = NoRace
    /\ UNCHANGED <<runnerVars, claim_calls, onboarding_config, task_counts,
                   access_requests, now, projects, agents, tasks, file_locks, cost_events,
                   ledger>>

CostProjects == {"p1"}
CostAgents == {"a1", "a2"}
\* budget.spent given to createProject: absent, or preset as in the store's tests
InitialSpent == {0, 3}
\* budget.total given to createProject: absent, or a limit
BudgetTotals == {NullTime, 1}
\* event.cost: conductor_report_usage multiplies the token counts it is given,
\* any numbers, by the agent's rates
CostValues == (0 - MaxCost)..MaxCost

\* The cost ledger with its callers in two processes
NextCosts ==
    \/ \E p \in CostProjects, b \in BudgetTotals, s \in InitialSpent : CreateProject(p, b, s)
    \/ \E p \in CostProjects, a \in CostAgents, n \in AgentNames : RegisterAgent(p, a, n)
    \/ \E q \in Procs, p \in CostProjects, a \in CostAgents, c \in CostValues :
          RecordCostInsert(q, p, a, c)
    \/ \E q \in Procs : RecordCostUpdate(q)
    \/ \E q \in Procs : Crash(q)

SpecCosts == Init /\ [][NextCosts]_vars

BudgetAgents == {"a1"}

\* The cost ledger with one reporting agent, against budgets of every kind
NextBudget ==
    \/ \E p \in CostProjects, b \in BudgetTotals, s \in InitialSpent : CreateProject(p, b, s)
    \/ \E p \in CostProjects, a \in BudgetAgents, n \in AgentNames : RegisterAgent(p, a, n)
    \/ \E q \in Procs, p \in CostProjects, a \in BudgetAgents, c \in CostValues :
          RecordCostInsert(q, p, a, c)
    \/ \E q \in Procs : RecordCostUpdate(q)
    \/ \E q \in Procs : Crash(q)

SpecBudget == Init /\ [][NextBudget]_vars

----------------------------------------------------------------------------
(* Properties of the cost ledger, checked under SpecCosts.  ledger[p] keeps  *)
(* what the calls did: the project's budget.spent at creation, the costs of   *)
(* the events inserted, the costs of the recordCost calls that returned.      *)

\* C3 as stated: for every project, after any sequence of N recordCost calls
\* with costs c1..cN for that project, getProjectSpend(project) equals
\* c1+...+cN and also equals the project's budget.spent.
C3_SpendIsSumOfCosts ==
    (\A q \in Procs : pc[q] = "idle")
    => \A p \in DOMAIN projects :
          /\ GetProjectSpend(p) = ledger[p].returned
          /\ projects[p].budget_spent = ledger[p].returned

\* C5 as stated: recordCost appends the cost event and increments the
\* project's budget.spent as one atomic unit: in no state observable by
\* another caller, and in no state left behind by a failure between the two
\* writes, is an event present in the ledger while budget.spent has not been
\* incremented by its cost, or the reverse.
C5_EventAndIncrementTogether ==
    \A p \in DOMAIN projects :
        projects[p].budget_spent - ledger[p].initial = ledger[p].inserted

\* C14 as stated: a project's budget.spent never decreases along any
\* execution, and no operation other than recordCost changes it once the
\* project exists.
C14_SpentNeverDecreases ==
    [][ \A p \in DOMAIN projects :
           /\ projects'[p].budget_spent >= projects[p].budget_spent
           /\ projects'[p].budget_spent # projects[p].budget_spent
              => lastCall'.op = "recordCost" ]_vars

\* C15 as stated: the cost ledger is append-only: once recordCost has written
\* a cost event, no later operation of the engine deletes it or changes any of
\* its fields.
C15_LedgerAppendOnly == [][cost_events \subseteq cost_events']_vars

----------------------------------------------------------------------------
(* Access control workflow.  The store's access-request methods are not in   *)
(* the sources at hand (their tests and callers are): they follow the         *)
(* specification's section 4.4.  A row of access_requests is (project_id,     *)
(* agent_id, agent_name, agent_type, status, requested_at, reviewed_at,       *)
(* reviewed_by, expires_at); capabilities, requestedRole and denialReason are *)
(* left out.                                                                   *)

MsPerHour == 3600000
HoursPerDay == 24
MsPerDay == HoursPerDay * MsPerHour
MaxDays == 2
MaxExpiry == 1

RequestOrder == <<"r1", "r2">>
RequestIds == {RequestOrder[i] : i \in 1..Len(RequestOrder)}
AgentTypes == {"claude", "gemini", "gpt4", "codex", "llama", "custom", "my-custom-type"}
Reviewers == {"admin"}

\* The fixed table from agentType to provider
ProviderOf(agentType) ==
    CASE agentType = "claude" -> "anthropic"
      [] agentType = "gemini" -> "google"
      [] agentType \in {"gpt4", "codex"} -> "openai"
      [] agentType = "llama" -> "meta"
      [] OTHER -> "custom"

RequestExists(r) == r \in DOMAIN access_requests

\* A completed call of an access method: the request it returns or the count
CallOnRequest(op, p, r, a, res, num) ==
    [op |-> op, project |-> p, target |-> r, agent |-> a, res |-> res, at |-> num,
     arg |-> NullTime]

\* Variant of PendingRequests: a lookup that finds nothing
PendingRequestsNotFound(p, a) == {}

\* Variant of PendingRequests: a lookup with the wrong status
PendingRequestsByWrongStatus(p, a) ==
    {r \in DOMAIN access_requests :
        /\ access_requests[r].project_id = p
        /\ access_requests[r].agent_id = a
        /\ access_requests[r].status = "approved"}

\* Variant of PendingRequests: a lookup that ignores the status
PendingRequestsOfAnyStatus(p, a) ==
    {r \in DOMAIN access_requests :
        /\ access_requests[r].project_id = p
        /\ access_requests[r].agent_id = a}

\* The pending requests of (projectId, agentId)
PendingRequests(p, a) ==
    {r \in DOMAIN access_requests :
        /\ access_requests[r].project_id = p
        /\ access_requests[r].agent_id = a
        /\ access_requests[r].status = "pending"}

\* An id no request holds yet (ids are handed out in order)
FreshRequestId(r) ==
    /\ Cardinality(DOMAIN access_requests) < Len(RequestOrder)
    /\ r = RequestOrder[Cardinality(DOMAIN access_requests) + 1]

\* createAccessRequest(projectId, fields): the pending request of
\* (projectId, agentId) if there is one, returned unchanged; else a new
\* pending request
CreateAccessRequest(p, a, name, type) ==
    /\ ProjectExists(p)
    /\ IF PendingRequests(p, a) # {}
       THEN /\ \E r \in PendingRequests(p, a) :
                  lastCall' = CallOnRequest("createAccessRequest", p, r, a, RVoid, NullTime)
            /\ UNCHANGED access_requests
       ELSE \E r \in RequestIds :
               /\ FreshRequestId(r)
               /\ access_requests' =
                     (r :> [project_id |-> p, agent_id |-> a, agent_name |-> name,
                            agent_type |-> type, status |-> "pending",
                            requested_at |-> now, reviewed_at |-> NullTime,
                            reviewed_by |-> NULL, expires_at |-> NullTime])
                     @@ access_requests
               /\ lastCall' = CallOnRequest("createAccessRequest", p, r, a, RVoid, NullTime)
    /\ race' = NoRace
    /\ UNCHANGED <<runnerVars, claim_calls, onboarding_config, task_counts, now, projects,
                   agents, tasks, file_locks, cost_events, pc, frame, ledger>>

\* Variant of HasApprovedAccess: an approval that never lapses
HasApprovedAccessForever(p, a) ==
    \E r \in DOMAIN access_requests :
        /\ access_requests[r].project_id = p
        /\ access_requests[r].agent_id = a
        /\ access_requests[r].status = "approved"

\* hasApprovedAccess(projectId, agentId): an approved request whose expiresAt,
\* if it has one, is in the future
HasApprovedAccess(p, a) ==
    \E r \in DOMAIN access_requests :
        /\ access_requests[r].project_id = p
        /\ access_requests[r].agent_id = a
        /\ access_requests[r].status = "approved"
        /\ \/ access_requests[r].expires_at = NullTime
           \/ access_requests[r].expires_at > now

\* conductor_request_access: nothing to do for an agent with approved access,
\* createAccessRequest otherwise
ConductorRequestAccess(p, a, name, type) ==
    IF HasApprovedAccess(p, a)
    THEN /\ ProjectExists(p)
         /\ lastCall' = CallOnRequest("conductor_request_access", p, NULL, a, RTrue, NullTime)
         /\ race' = NoRace
         /\ UNCHANGED <<runnerVars, claim_calls, onboarding_config, task_counts,
                        access_requests, now, projects, agents, tasks, file_locks,
                        cost_events, pc, frame, ledger>>
    ELSE CreateAccessRequest(p, a, name, type)

\* expiresAt = now + expiresInDays, if expiresInDays is given
ExpiresAt(days) == IF days = NullTime THEN NullTime ELSE now + days * MsPerDay

\* approveAccessRequest(requestId, reviewedBy, expiresInDays?): the request is
\* approved and stamped, and the agent is registered (registerAgent, with its
\* INSERT OR REPLACE) under the request's name and the provider of its type
ApproveAccessRequest(r, reviewedBy, days) ==
    /\ RequestExists(r)
    /\ LET req == access_requests[r]
           a == req.agent_id
       IN /\ access_requests' =
                [access_requests EXCEPT ![r] =
                    [@ EXCEPT !.status = "approved", !.reviewed_at = now,
                              !.reviewed_by = reviewedBy, !.expires_at = ExpiresAt(days)]]
          /\ agents' = AgentsAfterRegister(req.project_id, a, req.agent_name,
                                            ProviderOf(req.agent_type))
          /\ tasks' = IF AgentExists(a) THEN TasksAfterAgentDelete(a) ELSE tasks
          /\ file_locks' = IF AgentExists(a) THEN LocksAfterAgentDelete(a) ELSE file_locks
          /\ cost_events' = IF AgentExists(a) THEN CostEventsAfterAgentDelete(a)
                            ELSE cost_events
          /\ lastCall' = CallOnRequest("approveAccessRequest", req.project_id, r, a,
                                       RVoid, days)
    /\ race' = NoRace
    /\ UNCHANGED <<runnerVars, claim_calls, onboarding_config, task_counts, now, projects,
                   pc, frame, ledger>>

\* denyAccessRequest(requestId, reviewedBy, reason?): the request is denied and
\* stamped
DenyAccessRequest(r, reviewedBy) ==
    /\ RequestExists(r)
    /\ access_requests' =
          [access_requests EXCEPT ![r] =
              [@ EXCEPT !.status = "denied", !.reviewed_at = now,
                        !.reviewed_by = reviewedBy]]
    /\ lastCall' = CallOnRequest("denyAccessRequest", access_requests[r].project_id, r,
                                 access_requests[r].agent_id, RVoid, NullTime)
    /\ race' = NoRace
    /\ UNCHANGED <<runnerVars, claim_calls, onboarding_config, task_counts, now, projects,
                   agents, tasks, file_locks, cost_events, pc, frame, ledger>>

\* Variant of OldRequests: a cutoff that leaves out the requests made at it
OldRequestsBeforeCutoff(p, hours) ==
    {r \in DOMAIN access_requests :
        /\ access_requests[r].project_id = p
        /\ access_requests[r].status = "pending"
        /\ access_requests[r].requested_at < now - hours * MsPerHour}

\* The pending requests of the project made at or before now - olderThanHours
OldRequests(p, hours) ==
    {r \in DOMAIN access_requests :
        /\ access_requests[r].project_id = p
        /\ access_requests[r].status = "pending"
        /\ access_requests[r].requested_at <= now - hours * MsPerHour}

\* expireOldRequests(projectId, olderThanHours): those requests become expired;
\* returns their number
ExpireOldRequests(p, hours) ==
    /\ access_requests' =
          [r \in DOMAIN access_requests |->
              IF r \in OldRequests(p, hours)
              THEN [access_requests[r] EXCEPT !.status = "expired"]
              ELSE access_requests[r]]
    /\ lastCall' = [CallOnRequest("expireOldRequests", p, NULL, NULL, RVoid,
                                  Cardinality(OldRequests(p, hours)))
                    EXCEPT !.arg = hours]
    /\ race' = NoRace
    /\ UNCHANGED <<runnerVars, claim_calls, onboarding_config, task_counts, now, projects,
                   agents, tasks, file_locks, cost_events, pc, frame, ledger>>

\* A day passes
DayPasses ==
    /\ now < MaxDays * MsPerDay
    /\ now' = now + MsPerDay
    /\ lastCall' = NoCall
    /\ race' = NoRace
    /\ UNCHANGED <<runnerVars, claim_calls, onboarding_config, task_counts,
                   access_requests, projects, agents, tasks, file_locks, cost_events, pc,
                   frame, ledger>>

AccessProjects == {"p1"}
AccessAgents == {"a1", "a2"}
AccessNames == {"n1", "n2"}
AccessTypes == {"claude"}
\* olderThanHours: 0, or the dashboard's default, body.olderThanHours || 24
ExpireHours == {0, HoursPerDay}

\* The access workflow with the MCP server's and the dashboard's callers, and
\* the calendar
NextAccess ==
    \/ \E p \in AccessProjects : CreateProject(p, NullTime, 0)
    \/ \E p \in AccessProjects, a \in AccessAgents, n \in AccessNames, t \in AccessTypes :
          CreateAccessRequest(p, a, n, t)
    \/ \E p \in AccessProjects, a \in AccessAgents, n \in AccessNames, t \in AccessTypes :
          ConductorRequestAccess(p, a, n, t)
    \/ \E r \in RequestIds, by \in Reviewers, d \in {NullTime} \cup 1..MaxExpiry :
          ApproveAccessRequest(r, by, d)
    \/ \E r \in RequestIds, by \in Reviewers : DenyAccessRequest(r, by)
    \/ \E p \in AccessProjects, h \in ExpireHours : ExpireOldRequests(p, h)
    \/ DayPasses

SpecAccess == Init /\ [][NextAccess]_vars

ApproveAgents == {"a1"}
ApproveNames == {"n1"}

\* Approval of requests of every agent type, for an agent that may already be
\* registered under another name
NextApprove ==
    \/ \E p \in AccessProjects : CreateProject(p, NullTime, 0)
    \/ \E p \in AccessProjects, a \in ApproveAgents : RegisterAgent(p, a, "n2")
    \/ \E p \in AccessProjects, a \in ApproveAgents, n \in ApproveNames, t \in AgentTypes :
          CreateAccessRequest(p, a, n, t)
    \/ \E r \in RequestIds, by \in Reviewers, d \in {NullTime} \cup 1..MaxExpiry :
          ApproveAccessRequest(r, by, d)
    \/ \E r \in RequestIds, by \in Reviewers : DenyAccessRequest(r, by)
    \/ DayPasses

SpecApprove == Init /\ [][NextApprove]_vars

ExpireProjects == {"p1", "p2"}

\* Expiry sweeps over the requests of two projects
NextExpire ==
    \/ \E p \in ExpireProjects : CreateProject(p, NullTime, 0)
    \/ \E p \in ExpireProjects, a \in AccessAgents, n \in ApproveNames, t \in AccessTypes :
          CreateAccessRequest(p, a, n, t)
    \/ \E r \in RequestIds, by \in Reviewers : ApproveAccessRequest(r, by, NullTime)
    \/ \E r \in RequestIds, by \in Reviewers : DenyAccessRequest(r, by)
    \/ \E p \in ExpireProjects, h \in ExpireHours : ExpireOldRequests(p, h)
    \/ DayPasses

SpecExpire == Init /\ [][NextExpire]_vars

\* MCP tool conductor_claim_task: stateStore.claimTask(taskId, agentId) is its
\* first statement and decides success; nothing is looked up before it
ConductorClaimTask(t, a) == ClaimTask(t, a)

GateAgents == {"a1"}
GateTasks == {"t1"}

\* Task claims by an agent that is registered directly or through an approval
NextGate ==
    \/ \E p \in AccessProjects : CreateProject(p, NullTime, 0)
    \/ \E p \in AccessProjects, a \in GateAgents, n \in ApproveNames : RegisterAgent(p, a, n)
    \/ \E t \in GateTasks, p \in AccessProjects : CreateTask(t, p, "pending", NULL)
    \/ \E t \in GateTasks, a \in GateAgents : ConductorClaimTask(t, a)
    \/ \E p \in AccessProjects, a \in GateAgents, n \in ApproveNames, t \in AccessTypes :
          CreateAccessRequest(p, a, n, t)
    \/ \E r \in RequestIds, by \in Reviewers, d \in {NullTime} \cup 1..MaxExpiry :
          ApproveAccessRequest(r, by, d)
    \/ \E r \in RequestIds, by \in Reviewers : DenyAccessRequest(r, by)
    \/ DayPasses

SpecGate == Init /\ [][NextGate]_vars

(* Properties of the access workflow *)

\* C17: createAccessRequest is idempotent while pending: a call for a
\* (projectId, agentId) that has a pending request returns that request's id
\* and leaves the stored requests unchanged, whatever agentName and other
\* fields it is given; a call that finds none returns the id of a new pending
\* request, so that two calls before any review return the same id.
C17_CreateIdempotentWhilePending ==
    [][ lastCall'.op = "createAccessRequest"
        => LET pending == {r \in DOMAIN access_requests :
                              /\ access_requests[r].project_id = lastCall'.project
                              /\ access_requests[r].agent_id = lastCall'.agent
                              /\ access_requests[r].status = "pending"}
           IN IF pending # {}
              THEN /\ lastCall'.target \in pending
                   /\ access_requests' = access_requests
              ELSE /\ lastCall'.target \notin DOMAIN access_requests
                   /\ lastCall'.target \in DOMAIN access_requests'
                   /\ access_requests'[lastCall'.target].status = "pending"
                   /\ access_requests'[lastCall'.target].project_id = lastCall'.project
                   /\ access_requests'[lastCall'.target].agent_id = lastCall'.agent ]_vars

\* A createAccessRequest has just returned a pending request made a day earlier
C17_Witness ==
    /\ lastCall.op = "createAccessRequest"
    /\ access_requests[lastCall.target].status = "pending"
    /\ access_requests[lastCall.target].requested_at < now

\* C18: in every reachable state there is at most one access request with
\* status pending per (projectId, agentId).
C18_OnePendingPerAgent ==
    \A p \in AccessProjects, a \in AccessAgents :
        Cardinality({r \in DOMAIN access_requests :
                        /\ access_requests[r].project_id = p
                        /\ access_requests[r].agent_id = a
                        /\ access_requests[r].status = "pending"}) <= 1

\* An agent has a pending request next to an earlier request of its own that
\* was reviewed or expired
C18_Witness ==
    \E r \in DOMAIN access_requests, u \in DOMAIN access_requests :
        /\ r # u
        /\ access_requests[r].project_id = access_requests[u].project_id
        /\ access_requests[r].agent_id = access_requests[u].agent_id
        /\ access_requests[r].status = "pending"
        /\ access_requests[u].status # "pending"

\* C19: approveAccessRequest(requestId, reviewedBy, expiresInDays?) leaves the
\* request with status approved, reviewedBy and reviewedAt set, and
\* expiresAt = now + expiresInDays when given; afterwards the request's agentId
\* is in the agent registry of that project with name = agentName and the
\* provider of its agentType: claude -> anthropic, gemini -> google, gpt4 or
\* codex -> openai, llama -> meta, anything else -> custom.
C19_ApproveStampsAndRegisters ==
    [][ lastCall'.op = "approveAccessRequest"
        => LET req == access_requests'[lastCall'.target]
               type == req.agent_type
           IN /\ req.status = "approved"
              /\ req.reviewed_by \in Reviewers
              /\ req.reviewed_at = now
              /\ lastCall'.at # NullTime
                 => req.expires_at = now + lastCall'.at * HoursPerDay * MsPerHour
              /\ req.agent_id \in DOMAIN agents'
              /\ agents'[req.agent_id].project_id = req.project_id
              /\ agents'[req.agent_id].name = req.agent_name
              /\ agents'[req.agent_id].provider =
                    IF type = "claude" THEN "anthropic"
                    ELSE IF type = "gemini" THEN "google"
                    ELSE IF type = "gpt4" \/ type = "codex" THEN "openai"
                    ELSE IF type = "llama" THEN "meta"
                    ELSE "custom" ]_vars

\* A request of type codex has just been approved with an expiry, for an agent
\* that was registered under another name before
C19_Witness ==
    /\ lastCall.op = "approveAccessRequest"
    /\ lastCall.at # NullTime
    /\ access_requests[lastCall.target].agent_type = "codex"
    /\ access_requests[lastCall.target].requested_at < now
    /\ agents[lastCall.agent].provider = "openai"

\* C21: expireOldRequests(projectId, h) turns to expired exactly the requests
\* of that project that are pending and were requested at or before
\* now - h hours, returns their number, and leaves every other request
\* unchanged; so expireOldRequests(projectId, 0) leaves no request of the
\* project pending, and an immediate second call returns 0.
C21_ExpireOldRequestsExact ==
    [][ lastCall'.op = "expireOldRequests"
        => LET p == lastCall'.project
               old == {r \in DOMAIN access_requests :
                          /\ access_requests[r].project_id = p
                          /\ access_requests[r].status = "pending"
                          /\ access_requests[r].requested_at
                                <= now - lastCall'.arg * MsPerHour}
           IN /\ DOMAIN access_requests' = DOMAIN access_requests
              /\ \A r \in old :
                    access_requests'[r] = [access_requests[r] EXCEPT !.status = "expired"]
              /\ \A r \in DOMAIN access_requests \ old :
                    access_requests'[r] = access_requests[r]
              /\ lastCall'.at = Cardinality(old)
              /\ lastCall'.arg = 0
                 => \A r \in DOMAIN access_requests' :
                       access_requests'[r].project_id = p
                       => access_requests'[r].status # "pending"
              /\ (lastCall.op = "expireOldRequests" /\ lastCall.project = p
                  /\ lastCall.arg = 0)
                 => lastCall'.at = 0 ]_vars

\* expireOldRequests(p, 24) has just expired one request of p and left an
\* equally old pending request of the other project as it was
C21_Witness ==
    /\ lastCall.op = "expireOldRequests"
    /\ lastCall.arg = HoursPerDay
    /\ lastCall.at = 1
    /\ \E r \in DOMAIN access_requests :
          /\ access_requests[r].status = "pending"
          /\ access_requests[r].requested_at <= now - HoursPerDay * MsPerHour

\* C22: an agent must be approved before it can claim tasks:
\* conductor_claim_task succeeds for agent a on a task of project P only if
\* hasApprovedAccess(P, a) is true at that time.
C22_ClaimNeedsApproval ==
    [][ (lastCall'.op = "claimTask" /\ lastCall'.res = RTrue)
        => HasApprovedAccess(tasks[lastCall'.target].project_id, lastCall'.agent) ]_vars

\* C20: hasApprovedAccess(projectId, agentId) is true if and only if some
\* request for that (project, agent) has status approved and either no
\* expiresAt or an expiresAt still in the future; it is false with no request
\* and with only pending, denied or expired requests, and it becomes false by
\* the passage of time alone once an approval's expiresAt has passed.
C20_ApprovedAccessUntilExpiry ==
    \A p \in AccessProjects, a \in AccessAgents :
        HasApprovedAccess(p, a)
        <=> \E r \in DOMAIN access_requests :
               /\ access_requests[r].project_id = p
               /\ access_requests[r].agent_id = a
               /\ access_requests[r].status = "approved"
               /\ access_requests[r].expires_at # NullTime => access_requests[r].expires_at > now

\* Time alone has ended an approval: the agent's only approved request has an
\* expiresAt that has passed, and hasApprovedAccess is false
C20_Witness ==
    \E r \in DOMAIN access_requests :
        /\ access_requests[r].status = "approved"
        /\ access_requests[r].expires_at # NullTime
        /\ access_requests[r].expires_at < now
        /\ ~HasApprovedAccess(access_requests[r].project_id, access_requests[r].agent_id)

\* C31: idempotence of createAccessRequest lasts only while the request is
\* pending: once the request of (projectId, agentId) has been denied or has
\* expired, a further createAccessRequest for the pair creates a new request
\* with status pending and a different id, and leaves the reviewed request
\* unchanged.
C31_CreateAfterDeniedOrExpired ==
    [][ lastCall'.op = "createAccessRequest"
        => LET mine == {r \in DOMAIN access_requests :
                           /\ access_requests[r].project_id = lastCall'.project
                           /\ access_requests[r].agent_id = lastCall'.agent}
           IN (/\ mine # {}
               /\ \A r \in mine : access_requests[r].status \in {"denied", "expired"})
              => /\ lastCall'.target \notin mine
                 /\ lastCall'.target \in DOMAIN access_requests'
                 /\ access_requests'[lastCall'.target].status = "pending"
                 /\ access_requests'[lastCall'.target].project_id = lastCall'.project
                 /\ access_requests'[lastCall'.target].agent_id = lastCall'.agent
                 /\ \A r \in DOMAIN access_requests :
                       access_requests'[r] = access_requests[r] ]_vars

\* createAccessRequest has just returned a new pending request for a pair
\* whose earlier request stays denied, or stays expired
C31_Witness ==
    /\ lastCall.op = "createAccessRequest"
    /\ access_requests[lastCall.target].status = "pending"
    /\ access_requests[lastCall.target].requested_at = now
    /\ \E r \in DOMAIN access_requests :
          /\ r # lastCall.target
          /\ access_requests[r].project_id = lastCall.project
          /\ access_requests[r].agent_id = lastCall.agent
          /\ access_requests[r].status \in {"denied", "expired"}
          /\ access_requests[r].requested_at < now

----------------------------------------------------------------------------
(* The task ledger with its callers.  The callers of createTask (dashboard,  *)
(* CLI) pass status 'pending'; the store's tests also pass assignedTo.       *)

TaskProjects == {"p1"}
CreateStatus == {"pending"}
TaskAgents == {"a1", "a2"}

\* Every task operation, two agents
NextTasks ==
    \/ \E p \in TaskProjects : CreateProject(p, NullTime, 0)
    \/ \E p \in TaskProjects, a \in TaskAgents, n \in AgentNames : RegisterAgent(p, a, n)
    \/ \E t \in TaskIds, p \in TaskProjects, s \in CreateStatus, a \in TaskAgents \cup {NULL} :
          CreateTask(t, p, s, a)
    \/ \E t \in TaskIds, a \in TaskAgents : ClaimTask(t, a)
    \/ \E t \in TaskIds, s \in ConductorUpdateStatus : ConductorUpdateTask(t, s)
    \/ \E t \in TaskIds : UnblockTask(t)
    \/ \E t \in TaskIds : CancelTask(t)
    \/ \E t \in TaskIds, a \in TaskAgents : ReassignTask(t, a)

SpecTasks == Init /\ [][NextTasks]_vars

\* Claiming: three agents, and the operations that make a task claimable
NextClaim ==
    \/ \E p \in TaskProjects : CreateProject(p, NullTime, 0)
    \/ \E p \in TaskProjects, a \in AgentIds, n \in AgentNames : RegisterAgent(p, a, n)
    \/ \E t \in TaskIds, p \in TaskProjects, s \in CreateStatus, a \in AgentIds \cup {NULL} :
          CreateTask(t, p, s, a)
    \/ \E t \in TaskIds, a \in AgentIds : ClaimTask(t, a)
    \/ \E t \in TaskIds : UnblockTask(t)
    \/ \E t \in TaskIds, a \in AgentIds : ReassignTask(t, a)

SpecClaim == Init /\ [][NextClaim]_vars

----------------------------------------------------------------------------
(* listTasks.  A filter is absent (has... = FALSE) or a set of values;       *)
(* assignedTo is an agent id or absent (NONE).                               *)

Priorities == {"critical", "high", "medium", "low"}

\* ORDER BY CASE priority WHEN 'critical' THEN 1 WHEN 'high' THEN 2
\* WHEN 'medium' THEN 3 ELSE 4 END
Rank(priority) ==
    CASE priority = "critical" -> 1
      [] priority = "high" -> 2
      [] priority = "medium" -> 3
      [] OTHER -> 4

\* The WHERE clause listTasks builds from projectId and the supplied filters
Matching(p, f) ==
    {t \in DOMAIN tasks :
        /\ tasks[t].project_id = p
        /\ f.hasStatus => tasks[t].status \in f.status
        /\ f.hasPriority => tasks[t].priority \in f.priority
        /\ f.assignedTo # NONE => tasks[t].assigned_to = f.assignedTo}

\* Row t may come before row u under ORDER BY rank, created_at
MayPrecede(t, u) ==
    \/ Rank(tasks[t].priority) < Rank(tasks[u].priority)
    \/ /\ Rank(tasks[t].priority) = Rank(tasks[u].priority)
       /\ tasks[t].created_at <= tasks[u].created_at

\* The results the query can produce: the matching rows in an order that
\* respects the ORDER BY terms; the order of rows equal in every term is
\* undefined in SQL
ListResults(p, f) ==
    LET rows == Matching(p, f)
        n == Cardinality(rows)
    IN {s \in [1..n -> rows] :
           /\ \A i, j \in 1..n : i # j => s[i] # s[j]
           /\ \A i, j \in 1..n : i < j => MayPrecede(s[i], s[j])}

\* listTasks(projectId, filters)
ListTasks(p, f) ==
    /\ \E s \in ListResults(p, f) :
          lastCall' = [Call("listTasks", NULL, NULL, RVoid)
                       EXCEPT !.project = p, !.target = f, !.arg = s]
    /\ race' = NoRace
    /\ UNCHANGED <<runnerVars, claim_calls, onboarding_config, task_counts,
                   access_requests, now, projects, agents, tasks, file_locks, cost_events,
                   pc, frame, ledger>>

ListPriorities == {"high", "low"}
ListAssignees == {"a1"}
ListFilters ==
    {[hasStatus |-> hs, status |-> {"pending"}, hasPriority |-> hp, priority |-> {"high"},
      assignedTo |-> a] : hs \in BOOLEAN, hp \in BOOLEAN, a \in {NONE} \cup ListAssignees}

\* Listing the tasks of two projects, created with and without a second
\* between them
NextList ==
    \/ \E p \in ProjectIds : CreateProject(p, NullTime, 0)
    \/ \E p \in ProjectIds, a \in ListAssignees, n \in AgentNames : RegisterAgent(p, a, n)
    \/ \E t \in TaskIds, p \in ProjectIds, pr \in ListPriorities :
          CreateTaskOf(t, p, "pending", pr, NULL)
    \/ \E t \in TaskIds, a \in ListAssignees : ClaimTask(t, a)
    \/ \E p \in ProjectIds, f \in ListFilters : ListTasks(p, f)
    \/ Tick

SpecList == Init /\ [][NextList]_vars

----------------------------------------------------------------------------
(* The agent registry with its callers: registration with a full profile in  *)
(* two projects, heartbeats and status updates                               *)

RegistryAgents == {"a1"}
AgentStatuses == {"idle", "working"}
QuotaLimits == {NullTime, 0, 1}
Profiles ==
    [name : {"n1", "n2"}, provider : {"anthropic"}, status : AgentStatuses,
     quotaLimit : QuotaLimits, lastHeartbeat : {NullTime}]

NextAgents ==
    \/ \E p \in ProjectIds : CreateProject(p, NullTime, 0)
    \/ \E p \in ProjectIds, a \in RegistryAgents, profile \in Profiles :
          RegisterAgentProfile(p, a, profile)
    \/ \E a \in RegistryAgents : Heartbeat(a)
    \/ \E a \in RegistryAgents, st \in AgentStatuses : UpdateAgentStatus(a, st)
    \/ Tick

SpecAgents == Init /\ [][NextAgents]_vars

----------------------------------------------------------------------------
(* Checkpoint cadence: the onboarding config of a project and the recorded   *)
(* task claims per (project, agent)                                          *)

MaxClaims == 4
\* checkpointEveryNTasks as the onboarding route saves it: the value given, or 3
EveryNTasks == {1, 2, 3}

\* setOnboardingConfig(projectId, config) with the two checkpoint fields, which
\* the onboarding route always supplies
SetOnboardingConfig(p, every, auto) ==
    /\ ProjectExists(p)
    /\ onboarding_config' =
          (p :> [checkpointEveryNTasks |-> every, autoRefreshContext |-> auto])
          @@ onboarding_config
    /\ lastCall' = [Call("setOnboardingConfig", NULL, NULL, RVoid) EXCEPT !.project = p]
    /\ race' = NoRace
    /\ UNCHANGED <<runnerVars, claim_calls, task_counts, access_requests, now, projects,
                   agents, tasks, file_locks, cost_events, pc, frame, ledger>>

\* getAgentTaskCount(projectId, agentId): the claims recorded for the pair
GetAgentTaskCount(p, a) ==
    IF <<p, a>> \in DOMAIN task_counts THEN task_counts[<<p, a>>] ELSE 0

\* isFirstTaskForAgent(projectId, agentId): no claim is recorded for the pair
IsFirstTaskForAgent(p, a) == GetAgentTaskCount(p, a) = 0

\* The recorded claims after one more claim of the pair
CountsAfterRecord(p, a) == (<<p, a>> :> GetAgentTaskCount(p, a) + 1) @@ task_counts

\* recordTaskClaim(projectId, agentId, taskId): one more claim for the pair
RecordTaskClaim(p, a, t) ==
    /\ ProjectExists(p)
    /\ GetAgentTaskCount(p, a) < MaxClaims
    /\ task_counts' = CountsAfterRecord(p, a)
    /\ lastCall' = [Call("recordTaskClaim", t, a, RVoid) EXCEPT !.project = p]
    /\ race' = NoRace
    /\ UNCHANGED <<runnerVars, claim_calls, onboarding_config, access_requests, now,
                   projects, agents, tasks, file_locks, cost_events, pc, frame, ledger>>

\* Variant of ShouldRefreshContext: the cadence test without the count > 0 test
ShouldRefreshContextAtZero(p, a) ==
    /\ onboarding_config[p].autoRefreshContext
    /\ GetAgentTaskCount(p, a) % onboarding_config[p].checkpointEveryNTasks = 0

\* shouldRefreshContext(projectId, agentId)
ShouldRefreshContext(p, a) ==
    /\ onboarding_config[p].autoRefreshContext
    /\ GetAgentTaskCount(p, a) > 0
    /\ GetAgentTaskCount(p, a) % onboarding_config[p].checkpointEveryNTasks = 0

\* conductor_claim_task's checkpoint check: isCheckpoint =
\* stateStore.shouldRefreshContext(projectId, agentId), on a project that has
\* an onboarding config
CheckpointCheck(p, a) ==
    /\ p \in DOMAIN onboarding_config
    /\ lastCall' = [Call("shouldRefreshContext", NULL, a,
                          IF ShouldRefreshContext(p, a) THEN RTrue ELSE RFalse)
                    EXCEPT !.project = p]
    /\ race' = NoRace
    /\ UNCHANGED <<runnerVars, claim_calls, onboarding_config, task_counts,
                   access_requests, now, projects, agents, tasks, file_locks, cost_events,
                   pc, frame, ledger>>

CadenceProjects == {"p1", "p2"}
CadenceAgents == {"a1"}

\* Recorded claims and checkpoint checks under every cadence
NextCadence ==
    \/ \E p \in CadenceProjects : CreateProject(p, NullTime, 0)
    \/ \E p \in CadenceProjects, n \in EveryNTasks, auto \in BOOLEAN :
          SetOnboardingConfig(p, n, auto)
    \/ \E p \in CadenceProjects, a \in CadenceAgents, t \in GateTasks : RecordTaskClaim(p, a, t)
    \/ \E p \in CadenceProjects, a \in CadenceAgents : CheckpointCheck(p, a)

SpecCadence == Init /\ [][NextCadence]_vars

----------------------------------------------------------------------------
(* MCP tool conductor_claim_task, statement by statement.  The handler of    *)
(* the server created for project p runs claimTask, getTask,                  *)
(* generateContextBundle, recordTaskClaim and shouldRefreshContext one after  *)
(* the other; each is a statement of its own on the database file, so the     *)
(* statements of a second server instance (another process on the same file)  *)
(* can run between them.  No statement of the store deletes a task, so        *)
(* getTask finds the task that claimTask has just claimed; the last read,     *)
(* shouldRefreshContext, changes nothing.                                      *)

\* A completed conductor_claim_task call of the server of project p: its
\* outcome, the bundle's isFirstTask, and the rank of its claim among the
\* successful claims of (p, agentId)
ClaimToolCall(p, t, a, res, isFirstTask, nth) ==
    [op |-> "conductor_claim_task", project |-> p, target |-> t, agent |-> a,
     res |-> res, at |-> nth, arg |-> isFirstTask]

\* Variant of ClaimSucceeded: only an exception ends the handler early
ClaimSucceededOrLost(res) == res # RThrows

\* const success = stateStore.claimTask(taskId, agentId); if (!success) return
\* the error text
ClaimSucceeded(res) == res = RTrue

\* The claims of (p, a) that claimTask has granted to the tool so far
ClaimCalls(p, a) == IF <<p, a>> \in DOMAIN claim_calls THEN claim_calls[<<p, a>>] ELSE 0

\* conductor_claim_task, first statement: claimTask(taskId, agentId).  A lost
\* claim returns the error text, an exception of the UPDATE leaves the handler.
ConductorClaimTaskClaim(q, p, t, a) ==
    /\ pc[q] = "idle"
    /\ ProjectExists(p)
    /\ ClaimCalls(p, a) < MaxClaims
    /\ tasks' = ClaimedTasks(t, a)
    /\ claim_calls' = IF ClaimResult(t, a) = RTrue
                      THEN (<<p, a>> :> ClaimCalls(p, a) + 1) @@ claim_calls
                      ELSE claim_calls
    /\ IF ClaimSucceeded(ClaimResult(t, a))
       THEN /\ pc' = [pc EXCEPT ![q] = "claimed"]
            /\ frame' = [frame EXCEPT ![q] =
                            [project |-> p, target |-> t, agent |-> a,
                             nth |-> ClaimCalls(p, a) + 1, isFirstTask |-> FALSE]]
            /\ lastCall' = NoCall
       ELSE /\ lastCall' = ClaimToolCall(p, t, a, ClaimResult(t, a), FALSE, NullTime)
            /\ UNCHANGED <<pc, frame>>
    /\ race' = NoRace
    /\ UNCHANGED <<runnerVars, onboarding_config, task_counts, access_requests, now,
                   projects, agents, file_locks, cost_events, ledger>>

\* conductor_claim_task, the reads: getTask(taskId) and
\* generateContextBundle(projectId, agentId, agentType, task), whose
\* isFirstTask is isFirstTaskForAgent(projectId, agentId)
ConductorClaimTaskBundle(q) ==
    /\ pc[q] = "claimed"
    /\ pc' = [pc EXCEPT ![q] = "bundled"]
    /\ frame' = [frame EXCEPT ![q] =
                    [@ EXCEPT !.isFirstTask =
                                 IsFirstTaskForAgent(frame[q].project, frame[q].agent)]]
    /\ lastCall' = NoCall
    /\ race' = NoRace
    /\ UNCHANGED <<runnerVars, claim_calls, onboarding_config, task_counts,
                   access_requests, now, projects, agents, tasks, file_locks, cost_events,
                   ledger>>

\* conductor_claim_task, the write: recordTaskClaim(projectId, agentId,
\* taskId), after which the handler returns the task and the bundle
ConductorClaimTaskRecord(q) ==
    /\ pc[q] = "bundled"
    /\ task_counts' = CountsAfterRecord(frame[q].project, frame[q].agent)
    /\ lastCall' = ClaimToolCall(frame[q].project, frame[q].target, frame[q].agent, RTrue,
                                 frame[q].isFirstTask, frame[q].nth)
    /\ pc' = [pc EXCEPT ![q] = "idle"]
    /\ frame' = [frame EXCEPT ![q] = NoFrame]
    /\ race' = NoRace
    /\ UNCHANGED <<runnerVars, claim_calls, onboarding_config, access_requests, now,
                   projects, agents, tasks, file_locks, cost_events, ledger>>

\* Two server instances of one project serve an agent that is registered and
\* one that is not; a blocked task can be unblocked and claimed again
NextClaimTool ==
    \/ \E p \in AccessProjects : CreateProject(p, NullTime, 0)
    \/ \E p \in AccessProjects, a \in GateAgents, n \in ApproveNames : RegisterAgent(p, a, n)
    \/ \E t \in TaskIds, p \in AccessProjects : CreateTask(t, p, "pending", NULL)
    \/ \E q \in Procs, p \in AccessProjects, t \in TaskIds, a \in AccessAgents :
          ConductorClaimTaskClaim(q, p, t, a)
    \/ \E q \in Procs : ConductorClaimTaskBundle(q)
    \/ \E q \in Procs : ConductorClaimTaskRecord(q)
    \/ \E t \in GateTasks : ConductorUpdateTask(t, "blocked")
    \/ \E t \in GateTasks : UnblockTask(t)

SpecClaimTool == Init /\ [][NextClaimTool]_vars

----------------------------------------------------------------------------
(* transaction(fn) = this.db.transaction(fn)(): BEGIN, the calls fn makes,   *)
(* then COMMIT when fn returns or ROLLBACK when it throws.  Until COMMIT the *)
(* rows written inside are in the view of the process that wrote them and    *)
(* not in the table the other connections read; SQLite has one writer at a   *)
(* time, so nobody else writes once the transaction has written.             *)

\* Variant of VisibleDuringTx: fn run without BEGIN, each statement committed
\* on its own
VisibleWithoutBegin(committed, written) == written

\* What the other connections see of the table while a transaction that has
\* written to it is open
VisibleDuringTx(committed, written) == committed

\* Some process holds the database's write lock
WriterActive(q) ==
    \E o \in Procs \ {q} : pc[o] = "transaction" /\ frame[o].created # {}

\* transaction(fn): BEGIN
TxBegin(q) ==
    /\ pc[q] = "idle"
    /\ pc' = [pc EXCEPT ![q] = "transaction"]
    /\ frame' = [frame EXCEPT ![q] = [view |-> tasks, created |-> {}]]
    /\ lastCall' = NoCall
    /\ race' = NoRace
    /\ UNCHANGED <<runnerVars, claim_calls, onboarding_config, task_counts,
                   access_requests, now, projects, agents, tasks, file_locks, cost_events,
                   ledger>>

\* A createTask that fn makes
TxCreateTask(q, t, p) ==
    /\ pc[q] = "transaction"
    /\ ~WriterActive(q)
    /\ ProjectExists(p)
    /\ LET view == IF frame[q].created = {} THEN tasks ELSE frame[q].view
           written == (t :> [project_id |-> p, status |-> "pending",
                             priority |-> DefaultPriority, assigned_to |-> NULL,
                             claimed_at |-> NullTime, started_at |-> NullTime,
                             completed_at |-> NullTime, created_at |-> DatetimeNow]) @@ view
       IN /\ Cardinality(DOMAIN view) < Len(TaskOrder)
          /\ t = TaskOrder[Cardinality(DOMAIN view) + 1]
          /\ frame' = [frame EXCEPT ![q] = [view |-> written,
                                            created |-> frame[q].created \cup {t}]]
          /\ tasks' = VisibleDuringTx(tasks, written)
    /\ lastCall' = NoCall
    /\ race' = NoRace
    /\ UNCHANGED <<runnerVars, claim_calls, onboarding_config, task_counts,
                   access_requests, now, projects, agents, file_locks, cost_events, pc,
                   ledger>>

\* A completed transaction(fn): the process, the outcome, the number of tasks
\* fn created
TxCall(q, res) ==
    [Call("transaction", NULL, q, res) EXCEPT !.at = Cardinality(frame[q].created),
                                              !.arg = frame[q].created]

\* fn returns: COMMIT
TxReturn(q) ==
    /\ pc[q] = "transaction"
    /\ tasks' = IF frame[q].created = {} THEN tasks ELSE frame[q].view
    /\ lastCall' = TxCall(q, RVoid)
    /\ pc' = [pc EXCEPT ![q] = "idle"]
    /\ frame' = [frame EXCEPT ![q] = NoFrame]
    /\ race' = NoRace
    /\ UNCHANGED <<runnerVars, claim_calls, onboarding_config, task_counts,
                   access_requests, now, projects, agents, file_locks, cost_events, ledger>>

\* fn throws: ROLLBACK, and the error is thrown on
TxThrow(q) ==
    /\ pc[q] = "transaction"
    /\ lastCall' = TxCall(q, RThrows)
    /\ pc' = [pc EXCEPT ![q] = "idle"]
    /\ frame' = [frame EXCEPT ![q] = NoFrame]
    /\ race' = NoRace
    /\ UNCHANGED <<runnerVars, claim_calls, onboarding_config, task_counts,
                   access_requests, now, projects, agents, tasks, file_locks, cost_events,
                   ledger>>

\* A createTask outside any transaction: its own atomic unit, made when no
\* transaction holds the write lock
CreateTaskAlone(q, t, p) ==
    /\ pc[q] = "idle"
    /\ ~WriterActive(q)
    /\ CreateTask(t, p, "pending", NULL)

NoFilter ==
    [hasStatus |-> FALSE, status |-> {}, hasPriority |-> FALSE, priority |-> {},
     assignedTo |-> NONE]

\* Batches of createTask inside transaction(fn) in two processes, single
\* createTask calls, and listTasks reading the table
NextTx ==
    \/ \E p \in ProjectIds : CreateProject(p, NullTime, 0)
    \/ \E q \in Procs : TxBegin(q)
    \/ \E q \in Procs, t \in TaskIds, p \in ProjectIds : TxCreateTask(q, t, p)
    \/ \E q \in Procs : TxReturn(q)
    \/ \E q \in Procs : TxThrow(q)
    \/ \E q \in Procs, t \in TaskIds, p \in ProjectIds : CreateTaskAlone(q, t, p)
    \/ \E p \in ProjectIds : ListTasks(p, NoFilter)

SpecTx == Init /\ [][NextTx]_vars

----------------------------------------------------------------------------
(* updateTask statement by statement.  The method reads the row with         *)
(* getTask and then runs its UPDATE, outside any transaction; the processes  *)
(* that share the database file (the MCP server of each agent, the           *)
(* dashboard) can interleave between the two statements.                     *)

\* A completed call of updateTask: the task id and the status it was given
UpdateCall(t, status, res) == [Call("updateTask", t, NULL, res) EXCEPT !.arg = status]

\* Variant of TaskNotFound: no guard on the row that was read
TaskNotFoundIgnored(t) == FALSE

\* if (!current) throw new Error(`Task not found: ${taskId}`)
TaskNotFound(t) == ~TaskExists(t)

\* updateTask, first statement: getTask(taskId) and the not-found guard; the
\* call keeps current.startedAt
UpdateTaskRead(q, t, status) ==
    /\ pc[q] = "idle"
    /\ IF TaskNotFound(t)
       THEN /\ lastCall' = UpdateCall(t, status, RThrows)
            /\ UNCHANGED <<pc, frame>>
       ELSE /\ pc' = [pc EXCEPT ![q] = "updateTask"]
            /\ frame' = [frame EXCEPT ![q] =
                            [target |-> t, status |-> status,
                             started_at |-> IF TaskExists(t) THEN tasks[t].started_at
                                            ELSE NullTime]]
            /\ lastCall' = NoCall
    /\ race' = NoRace
    /\ UNCHANGED <<runnerVars, claim_calls, onboarding_config, task_counts,
                   access_requests, now, projects, agents, tasks, file_locks, cost_events,
                   ledger>>

\* The row after UPDATE tasks SET status = ?, [started_at = ?,] [completed_at = ?]:
\* started_at is set when status is in_progress and the row that was read had
\* no startedAt, completed_at when status is completed or failed
RowAfterUpdate(row, status, startedAtRead) ==
    [row EXCEPT
        !.status = IF status # NONE THEN status ELSE @,
        !.started_at = IF status = "in_progress" /\ startedAtRead = NullTime THEN now ELSE @,
        !.completed_at = IF status \in {"completed", "failed"} THEN now ELSE @]

\* updateTask, second statement: UPDATE tasks SET ... WHERE id = ?, which
\* changes nothing when no row holds the id
UpdateTaskWrite(q) ==
    /\ pc[q] = "updateTask"
    /\ LET t == frame[q].target
       IN /\ tasks' = IF TaskExists(t)
                      THEN [tasks EXCEPT ![t] = RowAfterUpdate(tasks[t], frame[q].status,
                                                              frame[q].started_at)]
                      ELSE tasks
          /\ lastCall' = UpdateCall(t, frame[q].status, RVoid)
    /\ pc' = [pc EXCEPT ![q] = "idle"]
    /\ frame' = [frame EXCEPT ![q] = NoFrame]
    /\ race' = NoRace
    /\ UNCHANGED <<runnerVars, claim_calls, onboarding_config, task_counts,
                   access_requests, now, projects, agents, file_locks, cost_events, ledger>>

UpdateTasks == {"t1"}

\* updateTask called from two processes on a task that exists (t1) and on an
\* id that has no row (t2), and the clock
NextUpdate ==
    \/ \E p \in TaskProjects : CreateProject(p, NullTime, 0)
    \/ \E t \in UpdateTasks, p \in TaskProjects, s \in CreateStatus : CreateTask(t, p, s, NULL)
    \/ \E q \in Procs, t \in TaskIds, s \in ConductorUpdateStatus : UpdateTaskRead(q, t, s)
    \/ \E q \in Procs : UpdateTaskWrite(q)
    \/ Tick

SpecUpdate == Init /\ [][NextUpdate]_vars

----------------------------------------------------------------------------
(* A task next to everything that goes on around it: the clock, claims and   *)
(* updates of the other task, locks, heartbeats, cost reports, and the       *)
(* registration calls of the dashboard                                        *)

IdleProcs == {"mcp"}
IdleAgents == {"a1"}
IdleUpdates == {"in_progress"}
IdleCosts == {1}

NextIdle ==
    \/ \E p \in TaskProjects : CreateProject(p, NullTime, 0)
    \/ \E p \in TaskProjects, a \in IdleAgents, n \in AgentNames : RegisterAgent(p, a, n)
    \/ \E t \in TaskIds, p \in TaskProjects, st \in CreateStatus : CreateTask(t, p, st, NULL)
    \/ \E t \in TaskIds, a \in IdleAgents : ConductorClaimTask(t, a)
    \/ \E q \in IdleProcs, t \in TaskIds, st \in IdleUpdates : UpdateTaskRead(q, t, st)
    \/ \E q \in IdleProcs : UpdateTaskWrite(q)
    \/ \E p \in TaskProjects, f \in LeasePaths, a \in IdleAgents : AcquireLock(p, f, a, MaxTtl)
    \/ \E p \in TaskProjects, f \in LeasePaths : CheckLock(p, f)
    \/ \E a \in IdleAgents : Heartbeat(a)
    \/ \E q \in IdleProcs, p \in TaskProjects, a \in IdleAgents, c \in IdleCosts :
          RecordCostInsert(q, p, a, c)
    \/ \E q \in IdleProcs : RecordCostUpdate(q)
    \/ Tick

SpecIdle == Init /\ [][NextIdle]_vars

----------------------------------------------------------------------------
(* The MCP server created for one project, next to a second project in the   *)
(* same database.  createConductorServer binds projectId once; the task      *)
(* tools pass the taskId they are given to the store, whose statements        *)
(* select the task by id alone.                                               *)

\* options.projectId of the server
ServerProject == "p1"

\* MCP tool conductor_report_usage: getAgent(agentId), whose miss ends the
\* tool with 'Agent not found', then recordCost with the server's projectId
ConductorReportUsage(q, a, cost) ==
    IF AgentExists(a)
    THEN RecordCostInsert(q, ServerProject, a, cost)
    ELSE /\ pc[q] = "idle"
         /\ lastCall' = [CostCall(ServerProject, a, RFalse, cost)
                         EXCEPT !.op = "conductor_report_usage"]
         /\ race' = NoRace
         /\ UNCHANGED <<runnerVars, claim_calls, onboarding_config, task_counts,
                        access_requests, now, projects, agents, tasks, file_locks,
                        cost_events, pc, frame, ledger>>

\* The tools of the server of p1 called with the ids of tasks of either
\* project, by an agent that the dashboard registers in either project
NextServer ==
    \/ \E p \in ExpireProjects : CreateProject(p, NullTime, 0)
    \/ \E p \in ExpireProjects, a \in IdleAgents, n \in AgentNames : RegisterAgent(p, a, n)
    \/ \E t \in TaskIds, p \in ExpireProjects : CreateTask(t, p, "pending", NULL)
    \/ \E q \in IdleProcs, t \in TaskIds, a \in IdleAgents :
          ConductorClaimTaskClaim(q, ServerProject, t, a)
    \/ \E q \in IdleProcs : ConductorClaimTaskBundle(q)
    \/ \E q \in IdleProcs : ConductorClaimTaskRecord(q)
    \/ \E t \in TaskIds, st \in IdleUpdates : ConductorUpdateTask(t, st)
    \/ \E q \in IdleProcs, a \in IdleAgents, c \in IdleCosts : ConductorReportUsage(q, a, c)
    \/ \E q \in IdleProcs : RecordCostUpdate(q)

SpecServer == Init /\ [][NextServer]_vars

----------------------------------------------------------------------------
(* AgentRunner.  startAgent, runAgent and stopAgent are async methods of one *)
(* runner object: a call runs until its next await, and the statements of     *)
(* another call can run before it resumes.  The SandboxManager they await is  *)
(* known by its tests: createSandbox returns a running instance under a new   *)
(* id, or rejects and emits sandbox:failed; stopSandbox kills a running       *)
(* sandbox, marks it stopped and emits sandbox:stopped, does nothing for a    *)
(* sandbox it does not know, and never rejects.  The runner's onEvent         *)
(* callback, handleSandboxEvent, runs inside the manager's emit.              *)

SandboxOrder == <<"s1", "s2", "s3">>
SandboxIds == {SandboxOrder[i] : i \in 1..Len(SandboxOrder)}

\* A completed call of the runner: its agentId, the sandbox it created, and
\* whether it resolved (with success or not) or rejected
RunnerCall(op, a, s, res) ==
    [op |-> op, project |-> NULL, target |-> s, agent |-> a, res |-> res,
     at |-> NullTime, arg |-> NullTime]

\* this.runningAgents.has(agentId)
IsAgentRunning(a) == a \in DOMAIN runningAgents

\* this.runningAgents.delete(agentId)
Untracked(a) == [x \in DOMAIN runningAgents \ {a} |-> runningAgents[x]]

\* handleSandboxEvent for sandbox:stopped, sandbox:failed and sandbox:timeout:
\* if (event.agentId) this.runningAgents.delete(event.agentId)
HandleSandboxEvent(a) == IF a = NULL THEN runningAgents ELSE Untracked(a)

\* An id no sandbox holds yet (ids are handed out in order)
FreshSandboxId(s) ==
    /\ Cardinality(DOMAIN instances) < Len(SandboxOrder)
    /\ s = SandboxOrder[Cardinality(DOMAIN instances) + 1]

\* Whether stopSandbox(s) has a running sandbox to stop
StopsRunning(s) == s \in DOMAIN instances /\ instances[s].status = "running"

\* The instances after stopSandbox(s)
InstancesAfterStop(s) ==
    IF StopsRunning(s) THEN [instances EXCEPT ![s].status = "stopped"] ELSE instances

\* The running-agents map after the sandbox:stopped event of stopSandbox(s)
TrackedAfterStop(s) ==
    IF StopsRunning(s) THEN HandleSandboxEvent(instances[s].agentId) ELSE runningAgents

\* The call of slot c ends and leaves the slot
Leaves(c) == [calls EXCEPT ![c] = NoRun]

\* How a rejection inside startAgent reaches the caller: startAgent rejects,
\* runAgent catches it and resolves with success = false
Rejected(kind) == IF kind = "runAgent" THEN RFalse ELSE RThrows

\* startAgent up to its first await, for a direct call and for the call made
\* by runAgent: the runningAgents.has(agentId) check with its 'already
\* running' error, then createSandbox
Begin(c, a, kind) ==
    /\ calls[c].kind = "none"
    /\ IF IsAgentRunning(a)
       THEN /\ lastCall' = RunnerCall(kind, a, NULL, Rejected(kind))
            /\ UNCHANGED calls
       ELSE /\ calls' = [calls EXCEPT ![c] =
                            [NoRun EXCEPT !.kind = kind, !.agent = a, !.pc = "creating"]]
            /\ lastCall' = NoCall
    /\ UNCHANGED <<runningAgents, instances, storeVars>>

StartAgent(c, a) == Begin(c, a, "startAgent")

RunAgent(c, a) == Begin(c, a, "runAgent")

\* await createSandbox resolves: a running instance of the agent under a new id
CreateSandboxResolves(c) ==
    /\ calls[c].pc = "creating"
    /\ \E s \in SandboxIds :
          /\ FreshSandboxId(s)
          /\ instances' = (s :> [agentId |-> calls[c].agent, status |-> "running"])
                          @@ instances
          /\ calls' = [calls EXCEPT ![c].pc = "setup", ![c].created = s]
    /\ lastCall' = NoCall
    /\ UNCHANGED <<runningAgents, storeVars>>

\* await createSandbox rejects (the E2B API, or the limit of concurrent
\* sandboxes): sandbox:failed is emitted, with or without the agentId, and
\* startAgent rejects
CreateSandboxRejects(c) ==
    /\ calls[c].pc = "creating"
    /\ \E a \in {NULL, calls[c].agent} : runningAgents' = HandleSandboxEvent(a)
    /\ lastCall' = RunnerCall(calls[c].kind, calls[c].agent, NULL, Rejected(calls[c].kind))
    /\ calls' = Leaves(c)
    /\ UNCHANGED <<instances, storeVars>>

\* The awaits of the setup (git clone, the type's setup scripts, the custom
\* commands) have all resolved: runningAgents.set(agentId, {sandboxId}) and
\* startAgent returns the instance; runAgent goes on to run the agent's command
SetupSucceeds(c) ==
    /\ calls[c].pc = "setup"
    /\ runningAgents' = (calls[c].agent :> calls[c].created) @@ runningAgents
    /\ IF calls[c].kind = "runAgent"
       THEN /\ calls' = [calls EXCEPT ![c].pc = "running", ![c].instance = calls[c].created]
            /\ lastCall' = NoCall
       ELSE /\ calls' = Leaves(c)
            /\ lastCall' = RunnerCall("startAgent", calls[c].agent, calls[c].created, RVoid)
    /\ UNCHANGED <<instances, storeVars>>

\* An await of the setup rejects: the catch of startAgent awaits
\* stopSandbox(instance.id)
SetupFails(c) ==
    /\ calls[c].pc = "setup"
    /\ calls' = [calls EXCEPT ![c].pc = "cleanup"]
    /\ lastCall' = NoCall
    /\ UNCHANGED <<runningAgents, instances, storeVars>>

\* The stopSandbox of startAgent's catch is done, and startAgent rethrows
CleanupDone(c) ==
    /\ calls[c].pc = "cleanup"
    /\ instances' = InstancesAfterStop(calls[c].created)
    /\ runningAgents' = TrackedAfterStop(calls[c].created)
    /\ lastCall' = RunnerCall(calls[c].kind, calls[c].agent, calls[c].created,
                              Rejected(calls[c].kind))
    /\ calls' = Leaves(c)
    /\ UNCHANGED storeVars

\* Variant of FinallyStops: a finally block that leaves the sandbox alone
FinallySkips(instance) == FALSE

\* finally { if (instance) { runningAgents.delete(agentId); await stopSandbox } }
FinallyStops(instance) == instance # NULL

\* runAgent: the agent's command has ended, with exit code 0, with another
\* exit code, or with an exception that the catch turns into success = false;
\* then the finally block up to its await
CommandEnds(c) ==
    /\ calls[c].pc = "running"
    /\ \E ok \in BOOLEAN :
          IF FinallyStops(calls[c].instance)
          THEN /\ runningAgents' = Untracked(calls[c].agent)
               /\ calls' = [calls EXCEPT ![c].pc = "stopping", ![c].success = ok]
               /\ lastCall' = NoCall
          ELSE /\ lastCall' = RunnerCall("runAgent", calls[c].agent, calls[c].created,
                                         IF ok THEN RTrue ELSE RFalse)
               /\ calls' = Leaves(c)
               /\ UNCHANGED runningAgents
    /\ UNCHANGED <<instances, storeVars>>

\* runAgent: the stopSandbox of the finally block is done, and runAgent
\* resolves with its result
RunAgentStopped(c) ==
    /\ calls[c].pc = "stopping"
    /\ calls[c].kind = "runAgent"
    /\ instances' = InstancesAfterStop(calls[c].instance)
    /\ runningAgents' = TrackedAfterStop(calls[c].instance)
    /\ lastCall' = RunnerCall("runAgent", calls[c].agent, calls[c].created,
                              IF calls[c].success THEN RTrue ELSE RFalse)
    /\ calls' = Leaves(c)
    /\ UNCHANGED storeVars

\* stopAgent up to its await: nothing to do for an agent that is not in the
\* map, stopSandbox(agentInfo.sandboxId) otherwise
StopAgent(c, a) ==
    /\ calls[c].kind = "none"
    /\ IF IsAgentRunning(a)
       THEN /\ calls' = [calls EXCEPT ![c] =
                            [NoRun EXCEPT !.kind = "stopAgent", !.agent = a,
                                          !.pc = "stopping",
                                          !.instance = runningAgents[a]]]
            /\ lastCall' = NoCall
       ELSE /\ lastCall' = RunnerCall("stopAgent", a, NULL, RVoid)
            /\ UNCHANGED calls
    /\ UNCHANGED <<runningAgents, instances, storeVars>>

\* stopAgent: stopSandbox is done, then runningAgents.delete(agentId)
StopAgentStopped(c) ==
    /\ calls[c].pc = "stopping"
    /\ calls[c].kind = "stopAgent"
    /\ instances' = InstancesAfterStop(calls[c].instance)
    /\ runningAgents' =
          [x \in DOMAIN TrackedAfterStop(calls[c].instance) \ {calls[c].agent} |->
              runningAgents[x]]
    /\ lastCall' = RunnerCall("stopAgent", calls[c].agent, calls[c].instance, RVoid)
    /\ calls' = Leaves(c)
    /\ UNCHANGED storeVars

\* The sandbox reaches its timeout: the manager emits sandbox:timeout
SandboxTimeout(s) ==
    /\ StopsRunning(s)
    /\ instances' = [instances EXCEPT ![s].status = "timeout"]
    /\ runningAgents' = HandleSandboxEvent(instances[s].agentId)
    /\ lastCall' = NoCall
    /\ UNCHANGED <<calls, storeVars>>

RunnerAgents == {"a1", "a2"}

\* The runner's methods called for two agents, up to two calls at a time
NextRunner ==
    \/ \E c \in CallSlots, a \in RunnerAgents : StartAgent(c, a)
    \/ \E c \in CallSlots, a \in RunnerAgents : RunAgent(c, a)
    \/ \E c \in CallSlots : CreateSandboxResolves(c)
    \/ \E c \in CallSlots : CreateSandboxRejects(c)
    \/ \E c \in CallSlots : SetupSucceeds(c)
    \/ \E c \in CallSlots : SetupFails(c)
    \/ \E c \in CallSlots : CleanupDone(c)
    \/ \E c \in CallSlots : CommandEnds(c)
    \/ \E c \in CallSlots : RunAgentStopped(c)
    \/ \E c \in CallSlots, a \in RunnerAgents : StopAgent(c, a)
    \/ \E c \in CallSlots : StopAgentStopped(c)
    \/ \E s \in SandboxIds : SandboxTimeout(s)

SpecRunner == Init /\ [][NextRunner]_vars

----------------------------------------------------------------------------
(* Properties of the task ledger.  race records two claimTask calls made one *)
(* right after the other, by distinct agents, on a task that was pending      *)
(* before the first: with a synchronous store, any interleaving of two        *)
(* concurrent calls is one of the two orders.                                 *)

\* C1 as stated: for every pending task and any two distinct agents A and B
\* that call claimTask on it concurrently, exactly one of the two calls
\* returns true and the other returns false, and afterwards the task's
\* assignedTo equals the agent whose call returned true.
C1_ExactlyOneClaimWins ==
    race.second # NULL
    => \/ /\ race.firstRes = RTrue
          /\ race.secondRes = RFalse
          /\ tasks[race.task].assigned_to = race.first
       \/ /\ race.firstRes = RFalse
          /\ race.secondRes = RTrue
          /\ tasks[race.task].assigned_to = race.second

AssignedStatus == {"claimed", "in_progress", "completed", "failed", "blocked"}

\* C4 as stated: in every reachable state and for every task, assignedTo is
\* set if and only if the task's status is one of claimed, in_progress,
\* completed, failed, blocked.
C4_AssignedIffStatus ==
    \A t \in DOMAIN tasks :
        tasks[t].assigned_to # NULL <=> tasks[t].status \in AssignedStatus

\* C6 as stated: claimTask(taskId, agentId) returns true if and only if, at
\* the moment of the call, the task exists, its status is pending, and its
\* assignedTo is unset or equal to agentId; when it returns true the task has
\* assignedTo = agentId, status = claimed and claimedAt set; when it returns
\* false no field of any task changes.
C6_ClaimTrueIffClaimable ==
    [][ lastCall'.op = "claimTask"
        => LET t == lastCall'.target
               a == lastCall'.agent
           IN /\ lastCall'.res = RTrue
                 <=> /\ t \in DOMAIN tasks
                     /\ tasks[t].status = "pending"
                     /\ tasks[t].assigned_to \in {NULL, a}
              /\ lastCall'.res = RTrue
                 => /\ tasks'[t].assigned_to = a
                    /\ tasks'[t].status = "claimed"
                    /\ tasks'[t].claimed_at # NullTime
              /\ lastCall'.res = RFalse => tasks' = tasks ]_vars

\* C7 as stated: every claimTask attempt that does not win is reported as the
\* boolean false and never as an exception, for every task state and every
\* agentId passed by a caller.
C7_LosingClaimIsFalse ==
    (lastCall.op = "claimTask" /\ lastCall.res # RTrue) => lastCall.res = RFalse

\* C23: updateTask stamps startedAt on the first transition into in_progress
\* and only then: once a task's startedAt is set, no later updateTask changes
\* it, also when two in_progress updates interleave; every updateTask that
\* sets status to completed or failed stamps completedAt.
C23_StartedAtStampedOnce ==
    [][ \A t \in DOMAIN tasks :
          /\ tasks[t].started_at # NullTime => tasks'[t].started_at = tasks[t].started_at
          /\ (lastCall'.op = "updateTask" /\ lastCall'.target = t /\ lastCall'.res = RVoid)
             => /\ (lastCall'.arg = "in_progress" /\ tasks[t].started_at = NullTime)
                   => tasks'[t].started_at = now
                /\ lastCall'.arg # "in_progress"
                   => tasks'[t].started_at = tasks[t].started_at
                /\ lastCall'.arg \in {"completed", "failed"}
                   => tasks'[t].completed_at = now ]_vars

\* C24: updateTask on a task id that does not exist fails with a
\* 'Task not found' error and changes no stored state.
C24_UpdateMissingTaskThrows ==
    [][ (lastCall'.op = "updateTask" /\ lastCall'.target \notin DOMAIN tasks)
        => /\ lastCall'.res = RThrows
           /\ UNCHANGED <<runnerVars, claim_calls, onboarding_config, task_counts,
                          projects, agents, tasks, file_locks, cost_events, access_requests>> ]_vars

\* updateTask has just thrown on an id without a row while a task exists
C24_Witness ==
    /\ lastCall.op = "updateTask"
    /\ lastCall.res = RThrows
    /\ lastCall.target \notin DOMAIN tasks
    /\ DOMAIN tasks # {}

\* The position of a task in the order of creation
CreatedNth(t) == CHOOSE i \in 1..Len(TaskOrder) : TaskOrder[i] = t

\* C25: listTasks(projectId, filters) returns exactly the tasks of that
\* project that match every supplied filter, ordered by priority rank
\* critical > high > medium > low and, within one priority, by creation time;
\* the order is deterministic for a given store state: it is the one order in
\* which, of two tasks of one priority, the one created first comes first.
C25_ListTasksOrdered ==
    [][ lastCall'.op = "listTasks"
        => LET s == lastCall'.arg
               f == lastCall'.target
               wanted == {t \in DOMAIN tasks :
                             /\ tasks[t].project_id = lastCall'.project
                             /\ f.hasStatus => tasks[t].status \in f.status
                             /\ f.hasPriority => tasks[t].priority \in f.priority
                             /\ f.assignedTo # NONE => tasks[t].assigned_to = f.assignedTo}
           IN /\ {s[i] : i \in 1..Len(s)} = wanted
              /\ Len(s) = Cardinality(wanted)
              /\ \A i, j \in 1..Len(s) :
                    i < j
                    => \/ Rank(tasks[s[i]].priority) < Rank(tasks[s[j]].priority)
                       \/ /\ tasks[s[i]].priority = tasks[s[j]].priority
                          /\ CreatedNth(s[i]) < CreatedNth(s[j]) ]_vars

\* While a transaction is open, none of the tasks fn has created is in the
\* table the other callers read
NothingPartialVisible ==
    \A q \in Procs :
        pc[q] = "transaction" => frame[q].created \cap DOMAIN tasks = {}

\* When transaction(fn) ends: every task fn created is stored if fn returned,
\* none is if fn threw
AllOrNothing ==
    lastCall'.op = "transaction"
    => IF lastCall'.res = RVoid
       THEN lastCall'.arg \subseteq DOMAIN tasks'
       ELSE lastCall'.arg \cap DOMAIN tasks' = {}

\* C26: transaction(fn) commits the operations performed inside fn together:
\* if fn returns, all of their effects are visible afterwards; if fn throws,
\* none of them is, and no other caller ever observes only a part of them.
C26_TransactionAllOrNothing == []NothingPartialVisible /\ [][AllOrNothing]_vars

\* A transaction whose fn had created two tasks has just thrown
C26_Witness ==
    /\ lastCall.op = "transaction"
    /\ lastCall.res = RThrows
    /\ lastCall.at = 2

\* C27: shouldRefreshContext(projectId, agentId) is true if and only if
\* autoRefreshContext is enabled, the agent's recorded task count in the
\* project is greater than 0, and that count is a multiple of
\* checkpointEveryNTasks; it is false whenever the count is 0 and whenever
\* autoRefreshContext is disabled.
C27_RefreshAtCheckpoints ==
    [][ lastCall'.op = "shouldRefreshContext"
        => LET p == lastCall'.project
               key == <<p, lastCall'.agent>>
               count == IF key \in DOMAIN task_counts THEN task_counts[key] ELSE 0
               every == onboarding_config[p].checkpointEveryNTasks
           IN /\ lastCall'.res = RTrue
                 <=> /\ onboarding_config[p].autoRefreshContext
                     /\ count > 0
                     /\ \E k \in 1..count : count = k * every
              /\ count = 0 => lastCall'.res = RFalse
              /\ ~onboarding_config[p].autoRefreshContext => lastCall'.res = RFalse ]_vars

\* The check has just reported the second checkpoint of an agent: 4 recorded
\* claims under a cadence of 2
C27_Witness ==
    /\ lastCall.op = "shouldRefreshContext"
    /\ lastCall.res = RTrue
    /\ onboarding_config[lastCall.project].checkpointEveryNTasks = 2
    /\ task_counts[<<lastCall.project, lastCall.agent>>] = 4

\* C28: registerAgent is an upsert: after registerAgent(projectId, profile)
\* there is exactly one agent row with profile.id, and every field of it
\* (name, provider, status, quota, lastHeartbeat) equals the newly supplied
\* profile, with nothing carried over from an earlier registration of the id.
C28_RegisterAgentReplacesRow ==
    [][ (lastCall'.op = "registerAgent" /\ lastCall'.res = RVoid)
        => LET a == lastCall'.agent
               profile == lastCall'.arg
           IN /\ a \in DOMAIN agents'
              /\ agents'[a].project_id = lastCall'.project
              /\ agents'[a].name = profile.name
              /\ agents'[a].provider = profile.provider
              /\ agents'[a].status = profile.status
              /\ agents'[a].quota_limit = profile.quotaLimit
              /\ agents'[a].last_heartbeat = profile.lastHeartbeat ]_vars

\* C30: agent ids are scoped to a project: registering an agent with id X in
\* project B does not remove or modify the agent with id X already registered
\* in project A: listAgents(A) still contains X with its previous fields.
C30_AgentIdsScopedToProject ==
    [][ (lastCall'.op = "registerAgent" /\ lastCall'.res = RVoid)
        => \A A \in ProjectIds \ {lastCall'.project} :
              \A x \in ListAgents(A) :
                 /\ x \in DOMAIN agents'
                 /\ agents'[x] = agents[x] ]_vars

\* A step changes the status or assignedTo of task t
TaskTouched(t) ==
    \/ tasks'[t].status # tasks[t].status
    \/ tasks'[t].assigned_to # tasks[t].assigned_to

\* C29: nothing intervenes automatically: the passage of time and operations
\* that do not address the task never change a task's status or assignedTo;
\* a task stays in its last state until a claimTask or an updateTask-based
\* action is performed on it.
C29_NothingIntervenes ==
    [][ \A t \in DOMAIN tasks :
          TaskTouched(t)
          => /\ lastCall'.op \in {"claimTask", "updateTask"}
             /\ lastCall'.target = t ]_vars

\* The same frame property over every operation but registerAgent
C29_ExceptRegistration ==
    [][ \A t \in DOMAIN tasks :
          (TaskTouched(t) /\ lastCall'.op # "registerAgent")
          => /\ lastCall'.op \in {"claimTask", "updateTask"}
             /\ lastCall'.target = t ]_vars


\* C32: in the conductor_claim_task flow the context bundle reports
\* isFirstTask = true exactly for the agent's first successful claim in the
\* project and false for every later one, also when two claims by the same
\* agent on different tasks are processed by concurrent server instances.
C32_FirstTaskOnlyOnFirstClaim ==
    [][ (lastCall'.op = "conductor_claim_task" /\ lastCall'.res = RTrue)
        => (lastCall'.arg <=> lastCall'.at = 1) ]_vars

\* The conductor_claim_task calls of (p, a) that are between their claimTask
\* and their recordTaskClaim
ClaimsInProgress(p, a) ==
    {q \in Procs : /\ pc[q] \in {"claimed", "bundled"}
                   /\ frame[q].project = p
                   /\ frame[q].agent = a}

C34_ReRegistrationKeepsReferences ==
    [][ (/\ lastCall'.op \in {"registerAgent", "approveAccessRequest"}
         /\ lastCall'.res # RThrows
         /\ DOMAIN agents' = DOMAIN agents)
        => /\ tasks' = tasks
           /\ file_locks' = file_locks
           /\ cost_events' = cost_events ]_vars


\* A step of a tool of the MCP server: a statement of conductor_claim_task or
\* conductor_report_usage, or a conductor_update_task call
ServerStep ==
    \/ pc' # pc
    \/ lastCall'.op \in {"conductor_claim_task", "conductor_report_usage", "updateTask",
                         "recordCost"}

\* C35: a Conductor MCP server created for project P changes only state of
\* project P: conductor_claim_task and conductor_update_task called with the
\* id of a task that belongs to another project do not change that task, and
\* costs reported through conductor_report_usage are charged only to P.
C35_ServerChangesOnlyItsProject ==
    [][ ServerStep
        => /\ \A t \in DOMAIN tasks :
                 tasks[t].project_id # ServerProject => tasks'[t] = tasks[t]
           /\ \A p \in DOMAIN projects : p # ServerProject => projects'[p] = projects[p]
           /\ {e \in cost_events' : e.project_id # ServerProject}
                 = {e \in cost_events : e.project_id # ServerProject} ]_vars

\* The part of C35 about costs: a step of conductor_report_usage changes no
\* project row and no cost event of another project
C35_CostsChargedToServerProject ==
    [][ ServerStep
        => /\ \A p \in DOMAIN projects : p # ServerProject => projects'[p] = projects[p]
           /\ {e \in cost_events' : e.project_id # ServerProject}
                 = {e \in cost_events : e.project_id # ServerProject} ]_vars


\* The sandboxes of agent a that are running
LiveSandboxes(a) ==
    {s \in DOMAIN instances : instances[s].agentId = a /\ instances[s].status = "running"}

\* The sandbox is the one the running-agents map holds for its agent
Tracked(s) ==
    /\ instances[s].agentId \in DOMAIN runningAgents
    /\ runningAgents[instances[s].agentId] = s

\* The sandbox was created by a call that is still in progress
HeldByCall(s) == \E c \in CallSlots : calls[c].created = s

\* C36: AgentRunner keeps at most one live sandbox per agentId, also when two
\* startAgent calls for the same agentId overlap in time, and no sandbox
\* created by startAgent stays running without being tracked in the
\* running-agents map.
C36_OneLiveSandboxPerAgent ==
    /\ \A a \in RunnerAgents : Cardinality(LiveSandboxes(a)) <= 1
    /\ \A s \in DOMAIN instances :
          instances[s].status = "running" => Tracked(s) \/ HeldByCall(s)

\* The part of C36 about calls that do not overlap: a startAgent or runAgent
\* call for an agentId that is in the running-agents map creates no sandbox
\* and ends with the 'already running' error
C36_StartedAgentIsRejected ==
    [][ \A c \in CallSlots, a \in RunnerAgents :
           (a \in DOMAIN runningAgents /\ calls[c].kind = "none" /\ calls'[c].agent = a
            /\ calls'[c].kind \in {"startAgent", "runAgent"})
           => FALSE ]_vars

\* C37: runAgent never rejects - any failure in starting, setting up or
\* running the agent is returned as a result with success = false - and by
\* the time it resolves every sandbox created during that run has been
\* stopped and the run has left no entry for the agent in the running-agents
\* map.
C37_RunAgentCleansUp ==
    [][ lastCall'.op = "runAgent"
        => /\ lastCall'.res \in {RTrue, RFalse}
           /\ lastCall'.target # NULL
              => /\ instances'[lastCall'.target].status # "running"
                 /\ ~(/\ lastCall'.agent \in DOMAIN runningAgents'
                      /\ runningAgents'[lastCall'.agent] = lastCall'.target) ]_vars

\* A runAgent call whose setup failed has just resolved with success = false,
\* its sandbox stopped, while a sandbox of another run is still running
C37_Witness ==
    /\ lastCall.op = "runAgent"
    /\ lastCall.res = RFalse
    /\ lastCall.target # NULL
    /\ instances[lastCall.target].status = "stopped"
    /\ \E s \in DOMAIN instances : instances[s].status = "running"

====
